---- MODULE Spec2Model ----
(***************************************************************************)
(* Model of the comprl competition server: the server callbacks            *)
(* (on_connect, on_disconnect, on_timeout, on_update), the player manager, *)
(* the matchmaking manager, the game manager and the per-game tick loop of *)
(* IGame, together with the user and game tables of the database.          *)
(*                                                                         *)
(* Every action is one callback of the single-threaded scheduler, run to   *)
(* completion.  The handlers are written as operators that take the whole  *)
(* server state as a record and return the state after the call, so that a *)
(* handler is the composition of the calls it makes, in source order.      *)
(*                                                                         *)
(* Scaling: qualities, thresholds and probabilities are in percent         *)
(* (0.3 is 30), the clock counts minutes, ratings are integers.            *)
(***************************************************************************)
EXTENDS Integers, Sequences, FiniteSets, TLC

\* ---------------------------------------------------------------- bounds
MaxTime == 1
MaxGames == 2
MaxTicks == 2
MaxForceEnds == 2
MaxWait == 3
MaxStoredGames == 2
FloatPrecision == 4
MaxDecaySigma == 16

\* ------------------------------------------------ sessions, users, inputs
Players == {"p1", "p2", "p3", "p4"}
PlayerOrder == <<"p1", "p2", "p3", "p4">>
\* the sessions that connect in the general specification
Sessions == {"p1", "p2", "p3"}
None == "none"

Users == {1, 2, 3}
BadToken == 0

\* the rows of the users table that the core never changes
UserRole == [u \in Users |-> IF u = 1 THEN "user" ELSE "bot"]
UserToken == [u \in Users |-> u]
Username == [u \in Users |-> u]

DEFAULT_MU == 25
DEFAULT_SIGMA == 8
InitRating == [u \in Users |-> IF u = 3 THEN [mu |-> 20, sigma |-> DEFAULT_SIGMA]
                                ELSE [mu |-> DEFAULT_MU, sigma |-> DEFAULT_SIGMA]]

\* the tokens each agent may present
TokenChoices == [p \in Players |->
                   CASE p = "p1" -> {1}
                     [] p = "p2" -> {2}
                     [] p = "p3" -> {1, 3, BadToken}
                     [] OTHER    -> {2}]

\* the tokens of three agents of three users, one human and two bots
StarveTokens == [p \in Players |-> CASE p = "p1" -> 1 [] p = "p2" -> 2 [] OTHER -> 3]

\* the tokens of the four agents when two pairs compete for one game slot
CapTokens == [p \in Players |-> IF p \in {"p1", "p3"} THEN 1 ELSE 2]

\* the tokens of four agents: two sessions of the human user and one of each bot
PassTokens == [p \in Players |->
                 CASE p = "p1" -> 1 [] p = "p2" -> 2 [] p = "p3" -> 1 [] OTHER -> 3]

\* the answers each agent may give to is_ready
ReadyChoices == [p \in Players |-> IF p = "p3" THEN BOOLEAN ELSE {TRUE}]

\* what the adapter's update can report on one tick
Outcomes == {"cont", "w1", "w2", "draw"}

\* the matchmaking settings the server may be started with
ConfigChoices == {[match_quality_threshold |-> 30,
                   percentage_min_players_waiting |-> 10,
                   percental_time_bonus |-> 10,
                   max_parallel_games |-> 1]}

\* settings with room for two games at a time
PassConfig == [match_quality_threshold |-> 30,
               percentage_min_players_waiting |-> 10,
               percental_time_bonus |-> 10,
               max_parallel_games |-> 2]

\* settings under which four fifths of the authenticated players must wait
GateConfig == [match_quality_threshold |-> 30,
               percentage_min_players_waiting |-> 80,
               percental_time_bonus |-> 10,
               max_parallel_games |-> 2]

\* the matchmaking table of a config file edited while the server runs
ReloadedConfig == [match_quality_threshold |-> 20,
                   percentage_min_players_waiting |-> 10,
                   percental_time_bonus |-> 10,
                   max_parallel_games |-> 2]

VARIABLES
    sess,                 \* transport of each session: new, open, closing, closed
    is_connected,         \* IPlayer.is_connected
    user_id,              \* IPlayer.user_id (0 is None); username follows from it
    auth_pending,         \* sessions with an authenticate request in flight
    ready_pending,        \* number of is_ready requests in flight per session
    connected_players,    \* PlayerManager.connected_players
    auth_players,         \* PlayerManager.auth_players: player_id -> user_id
    queue,                \* MatchmakingManager._queue
    match_quality_scores, \* MatchmakingManager._match_quality_scores
    settings,             \* the four matchmaking fields copied in __init__
    games,                \* GameManager.games (ids of the active games)
    game,                 \* every IGame object created so far, by id
    db_rating,            \* users table: mu, sigma
    db_games,             \* games table, in insertion order
    timed_out,            \* closing sessions on_timeout was called for
    disconnect_reason,    \* reason given to a session that is closing
    escaped,              \* an exception left a server callback
    config,               \* the matchmaking table of the global Config object
    rating_update         \* _end_game's rating update, statement by statement

vars == <<sess, is_connected, user_id, auth_pending, ready_pending,
          connected_players, auth_players, queue, match_quality_scores,
          settings, games, game, db_rating, db_games, timed_out,
          disconnect_reason, escaped, config, rating_update>>

\* the whole state as one value; exc is set while an exception propagates
Cur == [sess |-> sess, is_connected |-> is_connected, user_id |-> user_id,
        auth_pending |-> auth_pending, ready_pending |-> ready_pending,
        connected_players |-> connected_players, auth_players |-> auth_players,
        queue |-> queue, match_quality_scores |-> match_quality_scores,
        settings |-> settings, games |-> games, game |-> game,
        db_rating |-> db_rating, db_games |-> db_games,
        timed_out |-> timed_out, disconnect_reason |-> disconnect_reason,
        exc |-> FALSE]

\* no rating update is between two of its statements: inside the server a
\* callback runs to its end before the next one starts
NoRatingUpdate == [pc |-> "none", scores |-> <<0, 0>>,
                   p1 |-> [mu |-> 0, sigma |-> 0], p2 |-> [mu |-> 0, sigma |-> 0],
                   start |-> <<>>, amount |-> 0]

\* a game object that is no longer in GameManager.games and has no
\* get_action request in flight is referenced by nothing: it is forgotten
Forgotten == [players |-> <<None, None>>,
              finish_callbacks |-> <<>>,
              scores |-> <<0, 0>>,
              disconnected_player_id |-> None,
              finished |-> TRUE,
              actions |-> [x \in {} |-> TRUE],
              pending |-> {},
              round |-> 0,
              ticks |-> 0,
              upd_partial |-> FALSE,
              upd_bad |-> FALSE,
              quality |-> 0,
              invalid_by |-> {},
              rated |-> FALSE,
              n_end |-> [x \in {} |-> 0],
              n_ready |-> [x \in {} |-> 0]]

Collect(S) ==
    [g \in 1..Len(S.game) |->
        IF g \notin S.games /\ S.game[g].pending = {} THEN Forgotten
        ELSE S.game[g]]

Commit(S) ==
    /\ sess' = S.sess
    /\ is_connected' = S.is_connected
    /\ user_id' = S.user_id
    /\ auth_pending' = S.auth_pending
    /\ ready_pending' = S.ready_pending
    /\ connected_players' = S.connected_players
    /\ auth_players' = S.auth_players
    /\ queue' = S.queue
    /\ match_quality_scores' = S.match_quality_scores
    /\ settings' = S.settings
    /\ games' = S.games
    /\ game' = Collect(S)
    /\ db_rating' = S.db_rating
    /\ db_games' = S.db_games
    /\ timed_out' = S.timed_out
    /\ disconnect_reason' = S.disconnect_reason
    /\ escaped' = (escaped \/ S.exc)
    /\ config' = config
    /\ rating_update' = rating_update

\* ---------------------------------------------------------------- helpers
\* datetime.now(): time is measured from the present, so that the timestamps
\* held in the queue move into the past as time passes (see Tick)
now == 0

Max(a, b) == IF a >= b THEN a ELSE b
Abs(a) == IF a >= 0 THEN a ELSE 0 - a
EmptyMap == [x \in {} |-> TRUE]
MapDrop(f, k) == [x \in (DOMAIN f) \ {k} |-> f[x]]
MapPut(f, k, v) == [x \in (DOMAIN f) \cup {k} |-> IF x = k THEN v ELSE f[x]]

\* ------------------------------------------------------------ rating model
\* predicted draw probability in percent: symmetric, highest for equal ratings
predict_draw(r1, r2) == Max(0, 45 - 3 * Abs(r1.mu - r2.mu))

\* rating update: the higher score gains mu, the lower loses it; a game makes
\* both ratings more certain
rate(r1, r2, s1, s2) ==
    LET d == IF s1 > s2 THEN 1 ELSE IF s2 > s1 THEN 0 - 1 ELSE 0
    IN <<[mu |-> r1.mu + d, sigma |-> Max(1, r1.sigma - 1)],
         [mu |-> r2.mu - d, sigma |-> Max(1, r2.sigma - 1)]>>

\* ------------------------------------------------- floating-point numbers
\* mu and sigma are binary floating-point numbers in the users table.  Here a
\* number is an integer count of the smallest unit, and a result is rounded
\* to FloatPrecision significant bits, to nearest and ties to even, as the
\* database and Python round to 53 bits.
RECURSIVE Ulp(_, _)
Ulp(a, u) == IF a < (2 ^ FloatPrecision) * u THEN u ELSE Ulp(a, 2 * u)

RoundNearestEven(a) ==
    LET u == Ulp(a, 1)
        q == a \div u
        r == a % u
    IN IF 2 * r < u THEN q * u
       ELSE IF 2 * r > u THEN (q + 1) * u
       ELSE IF q % 2 = 0 THEN q * u ELSE (q + 1) * u

fl(x) == IF x < 0 THEN 0 - RoundNearestEven(0 - x) ELSE RoundNearestEven(x)

\* User.score and User.ranking_order_expression: mu - 3 * sigma
score(user) == fl(user.mu - fl(3 * user.sigma))

\* adjust_scores: sigma = sigma + amount in every row
adjust_scores(S, amount) ==
    [S EXCEPT !.db_rating =
        [u \in DOMAIN @ |-> [@[u] EXCEPT !.sigma = fl(@ + amount)]]]

\* ------------------------------------------------------------ user table
get_user_by_token(token) ==
    IF \E u \in Users : UserToken[u] = token
    THEN CHOOSE u \in Users : UserToken[u] = token
    ELSE 0

\* the User object as read from the table
get_user(S, uid) ==
    [user_id |-> uid, username |-> Username[uid], role |-> UserRole[uid],
     mu |-> S.db_rating[uid].mu, sigma |-> S.db_rating[uid].sigma]

get_matchmaking_parameters(S, uid) == S.db_rating[uid]

\* UserData.add: a new row with the next user_id and the given rating
UserData_add(S, mu, sigma) ==
    [S EXCEPT !.db_rating =
        MapPut(@, Cardinality(DOMAIN @) + 1, [mu |-> mu, sigma |-> sigma])]

\* mutant of reset_all_matchmaking_parameters: sigma is left as it is
reset_all_matchmaking_parameters_mu_only(S) ==
    [S EXCEPT !.db_rating =
        [u \in DOMAIN @ |-> [mu |-> DEFAULT_MU, sigma |-> @[u].sigma]]]

\* UserData.reset_all_matchmaking_parameters
reset_all_matchmaking_parameters(S) ==
    [S EXCEPT !.db_rating =
        [u \in DOMAIN @ |-> [mu |-> DEFAULT_MU, sigma |-> DEFAULT_SIGMA]]]

\* GameData.delete_all
delete_all(S) == [S EXCEPT !.db_games = <<>>]

\* mutant of set_matchmaking_parameters: the update is not restricted to
\* the row of the user
set_matchmaking_parameters_every_row(S, uid, mu, sigma) ==
    [S EXCEPT !.db_rating = [u \in DOMAIN @ |-> [mu |-> mu, sigma |-> sigma]]]

set_matchmaking_parameters(S, uid, mu, sigma) ==
    [S EXCEPT !.db_rating[uid] = [mu |-> mu, sigma |-> sigma]]

\* ---------------------------------------------------------------- session
\* IPlayer.disconnect: the transport is asked to close; the connection-lost
\* notification (OnDisconnect) follows as a callback of its own
disconnect(S, p, reason) ==
    [S EXCEPT !.is_connected[p] = FALSE,
              !.sess[p] = IF @ = "open" THEN "closing" ELSE @,
              !.disconnect_reason[p] = IF @ = None THEN reason ELSE @]

\* ---------------------------------------------------------- PlayerManager
pm_add(S, p) == [S EXCEPT !.connected_players = @ \cup {p}]

\* mutant of auth_ok: the token is not looked up
auth_ok_any_token(S, p, token) == p \in S.connected_players

auth_ok(S, p, token) ==
    /\ p \in S.connected_players
    /\ get_user_by_token(token) # 0

auth(S, p, token) ==
    IF auth_ok(S, p, token)
    THEN [S EXCEPT !.auth_players = MapPut(@, p, get_user_by_token(token)),
                   !.user_id[p] = get_user_by_token(token)]
    ELSE S

pm_remove(S, p) ==
    IF p \in S.connected_players
    THEN [S EXCEPT !.connected_players = @ \ {p},
                   !.auth_players = MapDrop(@, p)]
    ELSE S

\* mutant of get_user_id: the user_id is read off the player object
get_user_id_from_player(S, p) == S.user_id[p]

get_user_id(S, p) == IF p \in DOMAIN S.auth_players THEN S.auth_players[p] ELSE 0

get_player_by_id(S, p) == IF p \in DOMAIN S.auth_players THEN p ELSE None

\* ------------------------------------------------------------------ IGame
PlayersOf(G) == {G.players[1], G.players[2]}

\* IGame.__init__.  Besides the fields of the object: round counts the calls
\* of _run and ticks those of the adapter's update; upd_partial and upd_bad
\* record that update was called without both actions, or with an action
\* that failed validation; quality is the matched quality logged by the pass
\* that started the game; invalid_by the players whose action failed
\* validation while the game was active; rated whether _end_game wrote
\* ratings for it; n_end the notify_end messages sent per player and n_ready
\* the is_ready requests issued per player when it ended
NewGame(pa, pb, q) ==
    [players |-> <<pa, pb>>,
     finish_callbacks |-> <<>>,
     scores |-> <<0, 0>>,
     disconnected_player_id |-> None,
     finished |-> FALSE,
     actions |-> EmptyMap,
     pending |-> {},
     round |-> 0,
     ticks |-> 0,
     upd_partial |-> FALSE,
     upd_bad |-> FALSE,
     quality |-> q,
     invalid_by |-> {},
     rated |-> FALSE,
     n_end |-> [p \in {pa, pb} |-> 0],
     n_ready |-> [p \in {pa, pb} |-> 0]]

\* mutant of add_finish_callback: the callback is put in front of the list
add_finish_callback_front(S, g, cb) ==
    [S EXCEPT !.game[g].finish_callbacks = <<cb>> \o @]

add_finish_callback(S, g, cb) ==
    [S EXCEPT !.game[g].finish_callbacks = Append(@, cb)]

\* the adapter: has the player won (false while the game is in progress)
_player_won(G, p) ==
    IF ~G.finished THEN FALSE
    ELSE IF p = G.players[1] THEN G.scores[1] > G.scores[2]
    ELSE IF p = G.players[2] THEN G.scores[2] > G.scores[1]
    ELSE FALSE

\* the adapter: one step of the game with both actions; outcome is what the
\* environment reports on this step, and the last step always finishes
EffectiveOutcome(G, outcome) ==
    IF outcome = "cont" /\ G.ticks + 1 >= MaxTicks THEN "draw" ELSE outcome

_update(G, outcome) ==
    LET o == EffectiveOutcome(G, outcome)
    IN [G EXCEPT !.ticks = @ + 1,
                 !.upd_partial = @ \/ (DOMAIN G.actions # PlayersOf(G)),
                 !.upd_bad = @ \/ (\E p \in DOMAIN G.actions : ~G.actions[p]),
                 !.scores = IF o = "w1" THEN <<G.scores[1] + 1, G.scores[2]>>
                            ELSE IF o = "w2" THEN <<G.scores[1], G.scores[2] + 1>>
                            ELSE @,
                 !.finished = (o # "cont")]

\* GameResult: winner_id and disconnected_id follow from the end state
GameResult(gid, u1, u2, s1, s2, end_state, is_user1_winner, is_user1_disconnected) ==
    [game_id |-> gid, user1_id |-> u1, user2_id |-> u2,
     score_user_1 |-> s1, score_user_2 |-> s2, end_state |-> end_state,
     winner_id |-> IF end_state = "WIN"
                   THEN (IF is_user1_winner THEN u1 ELSE u2) ELSE 0,
     disconnected_id |-> IF end_state = "DISCONNECTED"
                         THEN (IF is_user1_disconnected THEN u1 ELSE u2) ELSE 0]

\* IGame.get_result; NoResult when a user_id is missing
NoResult == [end_state |-> "None"]

\* mutant of get_result: a win is reported even if a player disconnected
get_result_win_first(S, g) ==
    LET G == S.game[g]
        p1 == G.players[1]
        p2 == G.players[2]
        s0 == IF G.disconnected_player_id # None THEN "DISCONNECTED" ELSE "DRAW"
        end_state == IF _player_won(G, p1) \/ _player_won(G, p2) THEN "WIN" ELSE s0
        u1 == S.user_id[p1]
        u2 == S.user_id[p2]
    IN IF u1 = 0 \/ u2 = 0 THEN NoResult
       ELSE GameResult(g, u1, u2, G.scores[1], G.scores[2], end_state,
                       _player_won(G, p1), G.disconnected_player_id = p1)

get_result(S, g) ==
    LET G == S.game[g]
        p1 == G.players[1]
        p2 == G.players[2]
        s0 == IF _player_won(G, p1) \/ _player_won(G, p2) THEN "WIN" ELSE "DRAW"
        end_state == IF G.disconnected_player_id # None THEN "DISCONNECTED" ELSE s0
        u1 == S.user_id[p1]
        u2 == S.user_id[p2]
    IN IF u1 = 0 \/ u2 = 0 THEN NoResult
       ELSE GameResult(g, u1, u2, G.scores[1], G.scores[2], end_state,
                       _player_won(G, p1), G.disconnected_player_id = p1)

\* IGame._run: a fresh actions dict and one get_action request per player
_run(S, g) ==
    [S EXCEPT !.game[g].actions = EmptyMap,
              !.game[g].round = @ + 1,
              !.game[g].pending = @ \cup PlayersOf(S.game[g])]

\* IGame.start: notify_start to both players, then the first tick
start(S, g) == _run(S, g)

\* --------------------------------------------------- MatchmakingManager (1)
\* try_match: ask an authenticated player whether it is ready
try_match(S, p) ==
    IF get_player_by_id(S, p) # None
    THEN [S EXCEPT !.ready_pending[p] = @ + 1]
    ELSE S

\* match: append a queue entry with the user as read from the table now
match(S, p) ==
    LET uid == get_user_id(S, p)
    IN IF uid = 0 THEN S
       ELSE [S EXCEPT !.queue = Append(@, [player_id |-> p,
                                            user |-> get_user(S, uid),
                                            in_queue_since |-> now])]

\* mutant of try_match__match: the answer is read the wrong way round
try_match__match_inverted(S, p, ready) ==
    IF ready THEN S ELSE match(S, p)

\* mutant of try_match__match: the player is queued whatever it answers
try_match__match_any_answer(S, p, ready) == match(S, p)

\* the reply to is_ready
try_match__match(S, p, ready) == IF ready THEN match(S, p) ELSE S

mm_remove(S, p) ==
    [S EXCEPT !.queue = SelectSeq(@, LAMBDA e : e.player_id # p)]

\* _end_game: rate unless the game ended DISCONNECTED, then ask every player
\* of the game whether it is ready for another one
RECURSIVE TryMatchAll(_, _, _)
TryMatchAll(S, g, k) ==
    IF k > 2 THEN S
    ELSE LET p == S.game[g].players[k]
             S1 == try_match(S, p)
             S2 == IF get_player_by_id(S, p) # None
                   THEN [S1 EXCEPT !.game[g].n_ready[p] = @ + 1] ELSE S1
         IN TryMatchAll(S2, g, k + 1)

\* mutant of mm_end_game: the new ratings are computed from the ratings the
\* users started with, not from the ones in the store
mm_end_game_initial_ratings(S, g) ==
    LET result == get_result(S, g)
        S1 == IF result # NoResult /\ result.end_state # "DISCONNECTED"
              THEN LET r1 == InitRating[result.user1_id]
                       r2 == InitRating[result.user2_id]
                       new == rate(r1, r2, result.score_user_1, result.score_user_2)
                       Sa == set_matchmaking_parameters(S, result.user1_id,
                                                        new[1].mu, new[1].sigma)
                       Sb == set_matchmaking_parameters(Sa, result.user2_id,
                                                        new[2].mu, new[2].sigma)
                   IN [Sb EXCEPT !.game[g].rated = TRUE]
              ELSE S
    IN TryMatchAll(S1, g, 1)

mm_end_game(S, g) ==
    LET result == get_result(S, g)
        S1 == IF result # NoResult /\ result.end_state # "DISCONNECTED"
              THEN LET r1 == get_matchmaking_parameters(S, result.user1_id)
                       r2 == get_matchmaking_parameters(S, result.user2_id)
                       new == rate(r1, r2, result.score_user_1, result.score_user_2)
                       Sa == set_matchmaking_parameters(S, result.user1_id,
                                                        new[1].mu, new[1].sigma)
                       Sb == set_matchmaking_parameters(Sa, result.user2_id,
                                                        new[2].mu, new[2].sigma)
                   IN [Sb EXCEPT !.game[g].rated = TRUE]
              ELSE S
    IN TryMatchAll(S1, g, 1)

\* ------------------------------------------------------------ GameManager
\* mutant of GameData_add: game_id is not unique
GameData_add_not_unique(S, row, dbok) ==
    IF ~dbok THEN [S EXCEPT !.exc = TRUE]
    ELSE [S EXCEPT !.db_games = Append(@, row)]

\* GameData.add: game_id is unique in the games table; dbok is whether the
\* database accepts the write
GameData_add(S, row, dbok) ==
    IF ~dbok \/ (\E k \in 1..Len(S.db_games) : S.db_games[k].game_id = row.game_id)
    THEN [S EXCEPT !.exc = TRUE]
    ELSE [S EXCEPT !.db_games = Append(@, row)]

\* mutant of gm_end_game: the game is removed without its result being stored
gm_end_game_no_insert(S, g, dbok) ==
    IF g \in S.games THEN [S EXCEPT !.games = @ \ {g}] ELSE S

\* mutant of gm_end_game: the membership test is missing
gm_end_game_unguarded(S, g, dbok) ==
    LET result == get_result(S, g)
        S1 == IF result # NoResult THEN GameData_add(S, result, dbok) ELSE S
    IN IF S1.exc THEN S1
       ELSE [S1 EXCEPT !.games = @ \ {g}]

gm_end_game(S, g, dbok) ==
    IF g \in S.games
    THEN LET result == get_result(S, g)
             S1 == IF result # NoResult THEN GameData_add(S, result, dbok) ELSE S
         IN IF S1.exc THEN S1
            ELSE [S1 EXCEPT !.games = @ \ {g}]
    ELSE S

\* ------------------------------------------------------------- IGame (2)
RunCallback(S, g, cb, dbok) ==
    IF cb = "GameManager.end_game" THEN gm_end_game(S, g, dbok)
    ELSE mm_end_game(S, g)

RECURSIVE RunCallbacks(_, _, _, _)
RunCallbacks(S, g, k, dbok) ==
    IF S.exc \/ k > Len(S.game[g].finish_callbacks) THEN S
    ELSE RunCallbacks(RunCallback(S, g, S.game[g].finish_callbacks[k], dbok),
                      g, k + 1, dbok)

\* IGame._end: the finish callbacks in order, then notify_end to every
\* player but the one recorded as disconnected
_end(S, g, dbok) ==
    LET S1 == RunCallbacks(S, g, 1, dbok)
        G == S1.game[g]
    IN IF S1.exc THEN S1
       ELSE [S1 EXCEPT !.game[g].n_end =
                 [p \in DOMAIN @ |-> IF p = G.disconnected_player_id
                                     THEN @[p] ELSE @[p] + 1]]

force_end(S, g, p, dbok) ==
    _end([S EXCEPT !.game[g].disconnected_player_id = p], g, dbok)

\* what one finish callback did to game g, in the order of its statements,
\* read off the states before and after it: GameManager.end_game stores the
\* result and then removes the game, MatchmakingManager._end_game writes the
\* ratings and then requests is_ready from the players in turn
CallbackEvents(S, T, g) ==
    LET G == S.game[g]
        asked(k) == IF T.ready_pending[G.players[k]] > S.ready_pending[G.players[k]]
                    THEN <<[ev |-> "is_ready", to |-> G.players[k]]>> ELSE <<>>
    IN (IF Len(T.db_games) > Len(S.db_games)
        THEN <<[ev |-> "persist", to |-> None]>> ELSE <<>>)
       \o (IF g \in S.games /\ g \notin T.games
           THEN <<[ev |-> "remove", to |-> None]>> ELSE <<>>)
       \o (IF T.game[g].rated /\ ~S.game[g].rated
           THEN <<[ev |-> "rate", to |-> None]>> ELSE <<>>)
       \o asked(1) \o asked(2)

RECURSIVE CallbacksEvents(_, _, _, _)
CallbacksEvents(S, g, k, dbok) ==
    IF S.exc \/ k > Len(S.game[g].finish_callbacks) THEN <<>>
    ELSE LET T == RunCallback(S, g, S.game[g].finish_callbacks[k], dbok)
         IN CallbackEvents(S, T, g) \o CallbacksEvents(T, g, k + 1, dbok)

\* the steps of IGame._end entered in state S, in the order they are taken:
\* those of the finish callbacks, then the notify_end messages
EndEvents(S, g, dbok) ==
    LET T == _end(S, g, dbok)
        G == S.game[g]
        told(k) == IF T.game[g].n_end[G.players[k]] > G.n_end[G.players[k]]
                   THEN <<[ev |-> "notify_end", to |-> G.players[k]]>> ELSE <<>>
    IN CallbacksEvents(S, g, 1, dbok) \o told(1) \o told(2)

\* mutant of AllSubmitted: one action is enough
AllSubmitted_any(G) == Cardinality(DOMAIN G.actions) >= 1

\* the barrier of _res: have all players submitted their actions
AllSubmitted(G) == Cardinality(DOMAIN G.actions) = Cardinality(PlayersOf(G))

\* IGame._run._res: the reply of player p to get_action of game g
_res(S, g, p, valid, outcome, dbok) ==
    LET S1 == IF ~valid
              THEN [disconnect(S, p, "Invalid action") EXCEPT
                       !.game[g].invalid_by =
                           IF g \in S.games THEN @ \cup {p} ELSE @]
              ELSE S
        S2 == [S1 EXCEPT !.game[g].actions = MapPut(@, p, valid)]
    IN IF AllSubmitted(S2.game[g])
       THEN IF S2.game[g].disconnected_player_id # None THEN S2
            ELSE LET S3 == [S2 EXCEPT !.game[g] = _update(@, outcome)]
                 IN IF ~S3.game[g].finished THEN _run(S3, g)
                    ELSE _end(S3, g, dbok)
       ELSE S2

\* ------------------------------------------------------- GameManager (2)
start_game(S, pa, pb, q) ==
    LET g == Len(S.game) + 1
        S1 == [S EXCEPT !.game = Append(@, NewGame(pa, pb, q)),
                        !.games = @ \cup {g}]
        S2 == add_finish_callback(S1, g, "GameManager.end_game")
    IN start(S2, g)

\* force_game_end: every active game the player is in is forced to end
RECURSIVE ForceEndAll(_, _, _, _)
ForceEndAll(S, involved, p, dbok) ==
    IF involved = {} \/ S.exc THEN S
    ELSE LET g == CHOOSE x \in involved : \A y \in involved : x <= y
         IN ForceEndAll(force_end(S, g, p, dbok), involved \ {g}, p, dbok)

force_game_end(S, p, dbok) ==
    ForceEndAll(S, {g \in S.games : p \in PlayersOf(S.game[g])}, p, dbok)

\* --------------------------------------------------- MatchmakingManager (2)
\* mutant of is_legal_match: two bots may be paired
is_legal_match_two_bots(a, b) ==
    IF a.user.user_id = b.user.user_id THEN FALSE
    ELSE TRUE

\* mutant of is_legal_match: two sessions of one user may be paired
is_legal_match_same_user(a, b) ==
    IF a.user.role = "bot" /\ b.user.role = "bot" THEN FALSE
    ELSE TRUE

is_legal_match(a, b) ==
    IF a.user.user_id = b.user.user_id THEN FALSE
    ELSE IF a.user.role = "bot" /\ b.user.role = "bot" THEN FALSE
    ELSE TRUE

\* mutant of _min_players_waiting: nobody has to wait
_min_players_waiting_zero(S) == 0

_min_players_waiting(S) ==
    (Cardinality(DOMAIN S.auth_players)
        * S.settings.percentage_min_players_waiting) \div 100

\* mutant of waiting_bonus: waiting earns nothing
waiting_bonus_none(combined_waiting_time, percental_time_bonus) == 0

\* mutant of waiting_bonus: the first minute earns a bonus too
waiting_bonus_from_zero(combined_waiting_time, percental_time_bonus) ==
    Max(0, combined_waiting_time * percental_time_bonus)

\* waiting bonus for a combined waiting time in minutes
waiting_bonus(combined_waiting_time, percental_time_bonus) ==
    Max(0, (combined_waiting_time - 1) * percental_time_bonus)

\* the quality of a pair as computed from the two entries themselves
fresh_quality(S, a, b) ==
    predict_draw(a.user, b.user)
      + waiting_bonus((now - a.in_queue_since) + (now - b.in_queue_since),
                      S.settings.percental_time_bonus)

cache_key(a, b) == {a.user.username, b.user.username}

\* _rate_match_quality: the cached value for the two usernames if there is
\* one, else the fresh quality, which is then cached
_rate_match_quality(S, a, b) ==
    IF cache_key(a, b) \in DOMAIN S.match_quality_scores
    THEN [q |-> S.match_quality_scores[cache_key(a, b)], S |-> S]
    ELSE [q |-> fresh_quality(S, a, b),
          S |-> [S EXCEPT !.match_quality_scores =
                              MapPut(@, cache_key(a, b), fresh_quality(S, a, b))]]

\* _compute_match_qualities: the legal candidates with their qualities, in
\* queue order (the cache is filled on the way)
RECURSIVE _compute_match_qualities(_, _, _, _, _)
_compute_match_qualities(S, player1, candidates, k, acc) ==
    IF k > Len(candidates) THEN [mqs |-> acc, S |-> S]
    ELSE IF is_legal_match(player1, candidates[k])
    THEN LET r == _rate_match_quality(S, player1, candidates[k])
         IN _compute_match_qualities(r.S, player1, candidates, k + 1,
                Append(acc, [cand |-> candidates[k], q |-> r.q]))
    ELSE _compute_match_qualities(S, player1, candidates, k + 1, acc)

\* mutant of above_threshold: a quality equal to the threshold passes
above_threshold_or_equal(q, threshold) == q >= threshold

\* the filter of _search_for_matches
above_threshold(q, threshold) == q > threshold

\* mutant of _start_game: an entry whose player is not known stays in the
\* queue
_start_game_keep_unknown(S, player1, player2, q) ==
    LET pa == get_player_by_id(S, player1.player_id)
        pb == get_player_by_id(S, player2.player_id)
    IN IF pa = None \/ pb = None
       THEN S
       ELSE LET S1 == mm_remove(mm_remove(S, player1.player_id), player2.player_id)
                S2 == start_game(S1, pa, pb, q)
            IN add_finish_callback(S2, Len(S2.game), "MatchmakingManager._end_game")

\* mutant of _start_game: the first player's entry stays in the queue
_start_game_keep_first(S, player1, player2, q) ==
    LET pa == get_player_by_id(S, player1.player_id)
        pb == get_player_by_id(S, player2.player_id)
    IN IF pa = None \/ pb = None
       THEN LET S1 == IF pa = None THEN mm_remove(S, player1.player_id) ELSE S
            IN IF pb = None THEN mm_remove(S1, player2.player_id) ELSE S1
       ELSE LET S1 == mm_remove(S, player2.player_id)
                S2 == start_game(S1, pa, pb, q)
            IN add_finish_callback(S2, Len(S2.game), "MatchmakingManager._end_game")

\* mutant of _start_game: the second player's entry stays in the queue
_start_game_keep_second(S, player1, player2, q) ==
    LET pa == get_player_by_id(S, player1.player_id)
        pb == get_player_by_id(S, player2.player_id)
    IN IF pa = None \/ pb = None
       THEN LET S1 == IF pa = None THEN mm_remove(S, player1.player_id) ELSE S
            IN IF pb = None THEN mm_remove(S1, player2.player_id) ELSE S1
       ELSE LET S1 == mm_remove(S, player1.player_id)
                S2 == start_game(S1, pa, pb, q)
            IN add_finish_callback(S2, Len(S2.game), "MatchmakingManager._end_game")

\* _start_game: both entries leave the queue, the game manager starts the
\* game, and _end_game is registered after GameManager.end_game
_start_game(S, player1, player2, q) ==
    LET pa == get_player_by_id(S, player1.player_id)
        pb == get_player_by_id(S, player2.player_id)
    IN IF pa = None \/ pb = None
       THEN LET S1 == IF pa = None THEN mm_remove(S, player1.player_id) ELSE S
            IN IF pb = None THEN mm_remove(S1, player2.player_id) ELSE S1
       ELSE LET S1 == mm_remove(mm_remove(S, player1.player_id), player2.player_id)
                S2 == start_game(S1, pa, pb, q)
            IN add_finish_callback(S2, Len(S2.game), "MatchmakingManager._end_game")

\* mutant of limit_reached: the pass never stops early
limit_reached_never(S) == FALSE

\* has the pass reached the limit for parallel games
limit_reached(S) == Cardinality(S.games) >= S.settings.max_parallel_games

\* mutant of SearchLoop: the index also advances after a match
RECURSIVE SearchLoop_always_advance(_, _)
SearchLoop_always_advance(S, i) ==
    IF ~(i < Len(S.queue) - 1) THEN {S}
    ELSE IF limit_reached(S) THEN {S}
    ELSE LET player1 == S.queue[i + 1]
             candidates == SubSeq(S.queue, i + 2, Len(S.queue))
             r == _compute_match_qualities(S, player1, candidates, 1, <<>>)
             mqs == SelectSeq(r.mqs, LAMBDA x :
                       above_threshold(x.q, S.settings.match_quality_threshold))
         IN IF Len(mqs) > 0
            THEN UNION {SearchLoop_always_advance(
                            _start_game(r.S, player1, mqs[k].cand, mqs[k].q), i + 1)
                          : k \in 1..Len(mqs)}
            ELSE SearchLoop_always_advance(r.S, i + 1)

\* the loop of _search_for_matches from index i (0-based): the set of states
\* it can end in, one per way the random choices can fall
RECURSIVE SearchLoop(_, _)
SearchLoop(S, i) ==
    IF ~(i < Len(S.queue) - 1) THEN {S}
    ELSE IF limit_reached(S) THEN {S}
    ELSE LET player1 == S.queue[i + 1]
             candidates == SubSeq(S.queue, i + 2, Len(S.queue))
             r == _compute_match_qualities(S, player1, candidates, 1, <<>>)
             mqs == SelectSeq(r.mqs, LAMBDA x :
                       above_threshold(x.q, S.settings.match_quality_threshold))
         IN IF Len(mqs) > 0
            THEN UNION {SearchLoop(_start_game(r.S, player1, mqs[k].cand, mqs[k].q), i)
                          : k \in 1..Len(mqs)}
            ELSE SearchLoop(r.S, i + 1)

\* the test of the while loop and of its early return
LoopContinues(S, i) == i < Len(S.queue) - 1 /\ ~limit_reached(S)

\* one iteration of the loop at index i (0-based): the states it can leave,
\* each with the index the next iteration starts from
SearchStep(S, i) ==
    LET player1 == S.queue[i + 1]
        candidates == SubSeq(S.queue, i + 2, Len(S.queue))
        r == _compute_match_qualities(S, player1, candidates, 1, <<>>)
        mqs == SelectSeq(r.mqs, LAMBDA x :
                  above_threshold(x.q, S.settings.match_quality_threshold))
    IN IF Len(mqs) > 0
       THEN {[S |-> _start_game(r.S, player1, mqs[k].cand, mqs[k].q), i |-> i]
               : k \in 1..Len(mqs)}
       ELSE {[S |-> r.S, i |-> i + 1]}

_search_for_matches(S) ==
    IF Len(S.queue) < _min_players_waiting(S) THEN {S}
    ELSE SearchLoop(S, 0)

\* mutant of update: the cache of the last pass is kept
update_keep_cache(S) == _search_for_matches(S)

\* MatchmakingManager.update: empty the cache, then search
update(S) == _search_for_matches([S EXCEPT !.match_quality_scores = EmptyMap])

\* ----------------------------------------------------------------- Server
\* on_connect: register the session and ask it to authenticate
on_connect(S, p) ==
    [pm_add(S, p) EXCEPT !.auth_pending = @ \cup {p}]

\* the reply to authenticate
on_connect__auth(S, p, token) ==
    IF auth_ok(S, p, token) THEN try_match(auth(S, p, token), p)
    ELSE disconnect(auth(S, p, token), p, "Authentication failed")

on_disconnect(S, p, dbok) ==
    force_game_end(pm_remove(mm_remove(S, p), p), p, dbok)

on_timeout(S, p) ==
    [disconnect(S, p, "Timeout") EXCEPT !.timed_out = @ \cup {p}]

\* on_remote_error: the error is logged, nothing else happens
on_remote_error(S, p) == S

\* ---------------------------------------------------------------- actions
TypeOK ==
    /\ sess \in [Players -> {"new", "open", "closing", "closed"}]
    /\ is_connected \in [Players -> BOOLEAN]
    /\ user_id \in [Players -> Users \cup {0}]
    /\ auth_pending \subseteq Players
    /\ ready_pending \in [Players -> 0..2]
    /\ connected_players \subseteq Players
    /\ DOMAIN auth_players \subseteq Players
    /\ games \subseteq 1..Len(game)
    /\ \A k \in 1..Len(queue) : now - queue[k].in_queue_since \in 0..MaxTime
    /\ escaped \in BOOLEAN

Init ==
    /\ sess = [p \in Players |-> "new"]
    /\ is_connected = [p \in Players |-> TRUE]
    /\ user_id = [p \in Players |-> 0]
    /\ auth_pending = {}
    /\ ready_pending = [p \in Players |-> 0]
    /\ connected_players = {}
    /\ auth_players = EmptyMap
    /\ queue = <<>>
    /\ match_quality_scores = EmptyMap
    /\ settings \in ConfigChoices
    /\ games = {}
    /\ game = <<>>
    /\ db_rating = InitRating
    /\ db_games = <<>>
    /\ timed_out = {}
    /\ disconnect_reason = [p \in Players |-> None]
    /\ escaped = FALSE
    /\ config = settings
    /\ rating_update = NoRatingUpdate

\* a new connection; player ids are minted in order
Connect(p) ==
    /\ sess[p] = "new"
    /\ \A k \in 1..Len(PlayerOrder) :
          PlayerOrder[k] = p => \A j \in 1..(k - 1) : sess[PlayerOrder[j]] # "new"
    /\ Commit(on_connect([Cur EXCEPT !.sess[p] = "open"], p))

\* the agent answers the authenticate request
AuthReply(p, token) ==
    /\ sess[p] = "open"
    /\ p \in auth_pending
    /\ Commit(on_connect__auth([Cur EXCEPT !.auth_pending = @ \ {p}], p, token))

\* the agent answers an is_ready request
ReadyReply(p, ready) ==
    /\ sess[p] = "open"
    /\ ready_pending[p] > 0
    /\ Commit(try_match__match([Cur EXCEPT !.ready_pending[p] = @ - 1], p, ready))

\* the agent answers the get_action request of game g
ActionReply(g, p, valid, outcome, dbok) ==
    /\ g \in 1..Len(game)
    /\ sess[p] = "open"
    /\ p \in game[g].pending
    /\ Commit(_res([Cur EXCEPT !.game[g].pending = @ \ {p}],
                   g, p, valid, outcome, dbok))

HasPending(p) ==
    \/ p \in auth_pending
    \/ ready_pending[p] > 0
    \/ \E g \in 1..Len(game) : p \in game[g].pending

\* a request to the agent times out
Timeout(p) ==
    /\ sess[p] = "open"
    /\ HasPending(p)
    /\ Commit(on_timeout(Cur, p))

\* the transport reports the connection as lost: is_connected is cleared,
\* every request in flight fails without a reply, on_disconnect runs
ConnectionLost(S, p) ==
    [S EXCEPT !.sess[p] = "closed",
              !.is_connected[p] = FALSE,
              !.auth_pending = @ \ {p},
              !.ready_pending[p] = 0,
              !.timed_out = @ \ {p},
              !.disconnect_reason[p] = None,
              !.game = [g \in DOMAIN @ |-> [@[g] EXCEPT !.pending = @ \ {p}]]]

OnDisconnect(p, dbok) ==
    /\ sess[p] \in {"open", "closing"}
    /\ Commit(on_disconnect(ConnectionLost(Cur, p), p, dbok))

\* the scheduler tick: one matching pass
OnUpdate ==
    \E S \in update(Cur) :
        /\ Len(S.game) <= MaxGames
        /\ Commit(S)

\* a minute passes: the clock is read only to stamp queue entries and to
\* measure how long they have waited
Tick ==
    /\ Len(queue) > 0
    /\ \A k \in 1..Len(queue) : now - queue[k].in_queue_since < MaxTime
    /\ queue' = [k \in 1..Len(queue) |->
                    [queue[k] EXCEPT !.in_queue_since = @ - 1]]
    /\ UNCHANGED <<sess, is_connected, user_id, auth_pending, ready_pending,
                   connected_players, auth_players, match_quality_scores,
                   settings, games, game, db_rating, db_games, timed_out,
                   disconnect_reason, escaped, config, rating_update>>

Next ==
    \/ \E p \in Sessions : Connect(p)
    \/ \E p \in Sessions : \E token \in TokenChoices[p] : AuthReply(p, token)
    \/ \E p \in Sessions : \E ready \in ReadyChoices[p] : ReadyReply(p, ready)
    \/ \E g \in 1..MaxGames : \E p \in Sessions : \E valid \in BOOLEAN :
          \E outcome \in Outcomes : ActionReply(g, p, valid, outcome, TRUE)
    \/ \E p \in Sessions : Timeout(p)
    \/ \E p \in Sessions : OnDisconnect(p, TRUE)
    \/ OnUpdate
    \/ Tick

Spec == Init /\ [][Next]_vars

\* the server with a database that can refuse a write: three sessions of
\* two users, all ready
NextDbFail ==
    \/ \E p \in Sessions : Connect(p)
    \/ \E p \in Sessions : AuthReply(p, CapTokens[p])
    \/ \E p \in Sessions : ReadyReply(p, TRUE)
    \/ \E g \in 1..MaxGames : \E p \in Sessions : \E valid \in BOOLEAN :
          \E outcome \in Outcomes : \E dbok \in BOOLEAN :
              ActionReply(g, p, valid, outcome, dbok)
    \/ \E p \in Sessions : Timeout(p)
    \/ \E p \in Sessions : \E dbok \in BOOLEAN : OnDisconnect(p, dbok)
    \/ OnUpdate

SpecDbFail == Init /\ [][NextDbFail]_vars

\* four sessions of two users, all ready, so that two legal pairs of good
\* quality compete for the game slots; every game is won on its first tick
NextCap ==
    \/ \E p \in Players : Connect(p)
    \/ \E p \in Players : AuthReply(p, CapTokens[p])
    \/ \E p \in Players : ReadyReply(p, TRUE)
    \/ \E g \in 1..MaxGames : \E p \in Players : \E outcome \in {"w1"} :
          ActionReply(g, p, TRUE, outcome, TRUE)
    \/ \E p \in Players : OnDisconnect(p, TRUE)
    \/ OnUpdate

SpecCap == Init /\ [][NextCap]_vars

\* IGame.force_end called once more on a game object that was already
\* force-ended (the object is still referenced by the get_action request of
\* the surviving player), with the same player_id as the first call
ForceEndAgain(g) ==
    /\ g \in 1..Len(game)
    /\ game[g] # Forgotten
    /\ g \notin games
    /\ game[g].disconnected_player_id # None
    /\ \A q \in PlayersOf(game[g]) : game[g].n_end[q] < MaxForceEnds
    /\ Commit(force_end(Cur, g, game[g].disconnected_player_id, TRUE))

\* the server with a caller that repeats force_end
NextForceEnd ==
    \/ \E p \in Sessions : Connect(p)
    \/ \E p \in Sessions : AuthReply(p, CapTokens[p])
    \/ \E p \in Sessions : ReadyReply(p, TRUE)
    \/ \E g \in 1..MaxGames : \E p \in Sessions : \E outcome \in Outcomes :
          ActionReply(g, p, TRUE, outcome, TRUE)
    \/ \E p \in Sessions : OnDisconnect(p, TRUE)
    \/ OnUpdate
    \/ \E g \in 1..MaxGames : ForceEndAgain(g)

SpecForceEnd == Init /\ [][NextForceEnd]_vars

\* a minute passes, for as long as some entry has not yet waited MaxWait:
\* waits beyond MaxWait are counted as MaxWait, which can only lower a
\* quality
TickSaturating ==
    /\ \E k \in 1..Len(queue) : now - queue[k].in_queue_since < MaxWait
    /\ queue' = [k \in 1..Len(queue) |->
                    IF now - queue[k].in_queue_since < MaxWait
                    THEN [queue[k] EXCEPT !.in_queue_since = @ - 1]
                    ELSE queue[k]]
    /\ UNCHANGED <<sess, is_connected, user_id, auth_pending, ready_pending,
                   connected_players, auth_players, match_quality_scores,
                   settings, games, game, db_rating, db_games, timed_out,
                   disconnect_reason, escaped, config, rating_update>>

\* the server while time keeps passing
NextStarve ==
    \/ \E p \in Sessions : Connect(p)
    \/ \E p \in Sessions : AuthReply(p, StarveTokens[p])
    \/ \E p \in Sessions : ReadyReply(p, TRUE)
    \/ \E g \in 1..MaxGames : \E p \in Sessions :
          ActionReply(g, p, TRUE, "w1", TRUE)
    \/ \E p \in Sessions : OnDisconnect(p, TRUE)
    \/ OnUpdate
    \/ TickSaturating

SpecStarve == Init /\ [][NextStarve]_vars /\ WF_vars(TickSaturating)

\* four sessions of three users and two game slots, so that a pass can start
\* a game and go on through the rest of the queue; every game is won on its
\* first tick
InitPass ==
    /\ sess = [p \in Players |-> "new"]
    /\ is_connected = [p \in Players |-> TRUE]
    /\ user_id = [p \in Players |-> 0]
    /\ auth_pending = {}
    /\ ready_pending = [p \in Players |-> 0]
    /\ connected_players = {}
    /\ auth_players = EmptyMap
    /\ queue = <<>>
    /\ match_quality_scores = EmptyMap
    /\ settings = PassConfig
    /\ games = {}
    /\ game = <<>>
    /\ db_rating = InitRating
    /\ db_games = <<>>
    /\ timed_out = {}
    /\ disconnect_reason = [p \in Players |-> None]
    /\ escaped = FALSE
    /\ config = settings
    /\ rating_update = NoRatingUpdate

NextPass ==
    \/ \E p \in Players : Connect(p)
    \/ \E p \in Players : AuthReply(p, PassTokens[p])
    \/ \E p \in Players : ReadyReply(p, TRUE)
    \/ \E g \in 1..MaxGames : \E p \in Players :
          ActionReply(g, p, TRUE, "w1", TRUE)
    \/ OnUpdate
    \/ Tick

SpecPass == InitPass /\ [][NextPass]_vars

\* the server started with the given matchmaking settings
InitWith(cfg) ==
    /\ sess = [p \in Players |-> "new"]
    /\ is_connected = [p \in Players |-> TRUE]
    /\ user_id = [p \in Players |-> 0]
    /\ auth_pending = {}
    /\ ready_pending = [p \in Players |-> 0]
    /\ connected_players = {}
    /\ auth_players = EmptyMap
    /\ queue = <<>>
    /\ match_quality_scores = EmptyMap
    /\ settings = cfg
    /\ games = {}
    /\ game = <<>>
    /\ db_rating = InitRating
    /\ db_games = <<>>
    /\ timed_out = {}
    /\ disconnect_reason = [p \in Players |-> None]
    /\ escaped = FALSE
    /\ config = settings
    /\ rating_update = NoRatingUpdate

\* four sessions of three users under settings whose min-players gate can
\* close; the third agent may answer that it is not ready
InitGate == InitWith(GateConfig)

NextGate ==
    \/ \E p \in Players : Connect(p)
    \/ \E p \in Players : AuthReply(p, PassTokens[p])
    \/ \E p \in Players : \E ready \in ReadyChoices[p] : ReadyReply(p, ready)
    \/ \E g \in 1..MaxGames : \E p \in Players :
          ActionReply(g, p, TRUE, "w1", TRUE)
    \/ OnUpdate
    \/ Tick

SpecGate == InitGate /\ [][NextGate]_vars

\* reload_config: the matchmaking table of the global Config object is
\* replaced by the one read from the file; the fields MatchmakingManager
\* copied in __init__ are not touched
ReloadConfig ==
    /\ config # ReloadedConfig
    /\ config' = ReloadedConfig
    /\ UNCHANGED <<sess, is_connected, user_id, auth_pending, ready_pending,
                   connected_players, auth_players, queue, match_quality_scores,
                   settings, games, game, db_rating, db_games, timed_out,
                   disconnect_reason, escaped, rating_update>>

\* three sessions of three users; the config file is reloaded at some point
InitReload == InitWith(PassConfig)

NextReload ==
    \/ \E p \in Sessions : Connect(p)
    \/ \E p \in Sessions : AuthReply(p, StarveTokens[p])
    \/ \E p \in Sessions : ReadyReply(p, TRUE)
    \/ \E g \in 1..MaxGames : \E p \in Sessions :
          ActionReply(g, p, TRUE, "w1", TRUE)
    \/ OnUpdate
    \/ ReloadConfig

SpecReload == InitReload /\ [][NextReload]_vars

\* the connection is lost while replies of the agent are still on their way
\* to the callbacks: the authenticate and is_ready requests stay in flight
ConnectionLostLate(S, p) ==
    [S EXCEPT !.sess[p] = "closed",
              !.is_connected[p] = FALSE,
              !.timed_out = @ \ {p},
              !.disconnect_reason[p] = None,
              !.game = [g \in DOMAIN @ |-> [@[g] EXCEPT !.pending = @ \ {p}]]]

OnDisconnectLate(p) ==
    /\ sess[p] \in {"open", "closing"}
    /\ Commit(on_disconnect(ConnectionLostLate(Cur, p), p, TRUE))

\* the authenticate reply of a session on_disconnect has already run for
LateAuthReply(p, token) ==
    /\ sess[p] = "closed"
    /\ p \in auth_pending
    /\ Commit(on_connect__auth([Cur EXCEPT !.auth_pending = @ \ {p}], p, token))

\* the is_ready reply of a session on_disconnect has already run for
LateReadyReply(p, ready) ==
    /\ sess[p] = "closed"
    /\ ready_pending[p] > 0
    /\ Commit(try_match__match([Cur EXCEPT !.ready_pending[p] = @ - 1], p, ready))

\* the server with replies that arrive after their session was removed
NextLate ==
    \/ \E p \in Sessions : Connect(p)
    \/ \E p \in Sessions : \E token \in TokenChoices[p] : AuthReply(p, token)
    \/ \E p \in Sessions : \E ready \in ReadyChoices[p] : ReadyReply(p, ready)
    \/ \E g \in 1..MaxGames : \E p \in Sessions :
          ActionReply(g, p, TRUE, "w1", TRUE)
    \/ \E p \in Sessions : OnDisconnectLate(p)
    \/ \E p \in Sessions : \E token \in TokenChoices[p] : LateAuthReply(p, token)
    \/ \E p \in Sessions : \E ready \in BOOLEAN : LateReadyReply(p, ready)
    \/ OnUpdate

SpecLate == Init /\ [][NextLate]_vars

\* the agent raises while it handles the get_action request of game g: the
\* request is over, its callback is not called, on_remote_error runs
RemoteError(g, p) ==
    /\ g \in 1..Len(game)
    /\ sess[p] = "open"
    /\ p \in game[g].pending
    /\ Commit(on_remote_error([Cur EXCEPT !.game[g].pending = @ \ {p}], p))

\* the server with two agents that can raise in get_action
RemoteErrorSessions == {"p1", "p2"}

NextRemoteError ==
    \/ \E p \in RemoteErrorSessions : Connect(p)
    \/ \E p \in RemoteErrorSessions : AuthReply(p, CapTokens[p])
    \/ \E p \in RemoteErrorSessions : ReadyReply(p, TRUE)
    \/ \E g \in 1..MaxGames : \E p \in RemoteErrorSessions : \E outcome \in Outcomes :
          ActionReply(g, p, TRUE, outcome, TRUE)
    \/ \E g \in 1..MaxGames : \E p \in RemoteErrorSessions : RemoteError(g, p)
    \/ \E p \in RemoteErrorSessions : Timeout(p)
    \/ \E p \in RemoteErrorSessions : OnDisconnect(p, TRUE)
    \/ OnUpdate

InitRemoteError == InitWith(PassConfig)

SpecRemoteError == InitRemoteError /\ [][NextRemoteError]_vars

\* on_disconnect runs once more for a session it has already run for
OnDisconnectAgain(p, dbok) ==
    /\ sess[p] = "closed"
    /\ Commit(on_disconnect(Cur, p, dbok))

\* the server with a database that can refuse a write and a transport that
\* reports the loss of a connection twice
NextDisconnectAgain ==
    \/ NextDbFail
    \/ \E p \in Sessions : \E dbok \in BOOLEAN : OnDisconnectAgain(p, dbok)

SpecDisconnectAgain == Init /\ [][NextDisconnectAgain]_vars

\* the matching pass on its own, one iteration at a time, from any queue of
\* up to four sessions: every session is connected, some are authenticated
\* and the others are not known to the player manager as players
LoopQueues ==
    {q \in UNION {[1..n -> Players] : n \in 0..Cardinality(Players)} :
        \A a, b \in DOMAIN q : a # b => q[a] # q[b]}

InitLoop ==
    /\ sess = [p \in Players |-> "open"]
    /\ is_connected = [p \in Players |-> TRUE]
    /\ user_id = [p \in Players |-> PassTokens[p]]
    /\ auth_pending = {}
    /\ ready_pending = [p \in Players |-> 0]
    /\ connected_players = Players
    /\ \E known \in SUBSET Players :
          auth_players = [p \in known |-> PassTokens[p]]
    /\ db_rating = InitRating
    /\ \E q \in LoopQueues :
          queue = [k \in DOMAIN q |->
                     [player_id |-> q[k],
                      user |-> get_user([db_rating |-> InitRating], PassTokens[q[k]]),
                      in_queue_since |-> now]]
    /\ match_quality_scores = EmptyMap
    /\ settings = PassConfig
    /\ games = {}
    /\ game = <<>>
    /\ db_games = <<>>
    /\ timed_out = {}
    /\ disconnect_reason = [p \in Players |-> None]
    /\ escaped = FALSE
    /\ config = settings
    /\ rating_update = NoRatingUpdate

\* one iteration of the loop, at any index the loop can be at
LoopIteration(i) ==
    /\ LoopContinues(Cur, i)
    /\ \E r \in SearchStep(Cur, i) :
          /\ Len(r.S.game) <= MaxGames
          /\ Commit(r.S)

NextLoop ==
    \/ \E i \in 0..Cardinality(Players) : LoopIteration(i)
    \/ OnUpdate

SpecLoop == InitLoop /\ [][NextLoop]_vars

\* the data store on its own, as the database tests and the admin scripts use
\* it: users are added with the default rating, ratings are written, game
\* results are added under a few game ids, and everything is reset
StoreMus == {23, DEFAULT_MU}
StoreSigmas == {3, DEFAULT_SIGMA}

InitStore ==
    /\ sess = [p \in Players |-> "new"]
    /\ is_connected = [p \in Players |-> TRUE]
    /\ user_id = [p \in Players |-> 0]
    /\ auth_pending = {}
    /\ ready_pending = [p \in Players |-> 0]
    /\ connected_players = {}
    /\ auth_players = EmptyMap
    /\ queue = <<>>
    /\ match_quality_scores = EmptyMap
    /\ settings \in ConfigChoices
    /\ games = {}
    /\ game = <<>>
    /\ db_rating = EmptyMap
    /\ db_games = <<>>
    /\ timed_out = {}
    /\ disconnect_reason = [p \in Players |-> None]
    /\ escaped = FALSE
    /\ config = settings
    /\ rating_update = NoRatingUpdate

StoreAddUser ==
    /\ Cardinality(DOMAIN db_rating) < Cardinality(Users)
    /\ Commit(UserData_add(Cur, DEFAULT_MU, DEFAULT_SIGMA))

StoreSetRating(u, mu, sigma) ==
    /\ u \in DOMAIN db_rating
    /\ Commit(set_matchmaking_parameters(Cur, u, mu, sigma))

StoreAddGame(gid, end_state) ==
    /\ gid \in 1..MaxStoredGames
    /\ Commit(GameData_add(Cur, GameResult(gid, 1, 2, 3, 6, end_state, FALSE, TRUE),
                           TRUE))

\* the games are deleted, then the ratings reset, in a store that has users
StoreReset ==
    /\ DOMAIN db_rating # {}
    /\ Commit(reset_all_matchmaking_parameters(delete_all(Cur)))

NextStore ==
    \/ StoreAddUser
    \/ \E u \in Users : \E mu \in StoreMus : \E sigma \in StoreSigmas :
          StoreSetRating(u, mu, sigma)
    \/ \E gid \in 1..MaxStoredGames : \E end_state \in {"WIN", "DISCONNECTED"} :
          StoreAddGame(gid, end_state)
    \/ StoreReset

SpecStore == InitStore /\ [][NextStore]_vars

\* score decay on its own: two users with any ratings the number format can
\* hold in a small range, and the decay script adding to every sigma
DecayMus == {x \in 16..64 : fl(x) = x}
DecaySigmas == {x \in 1..12 : fl(x) = x}
DecayAmounts == {1, 2}

InitDecay ==
    /\ sess = [p \in Players |-> "new"]
    /\ is_connected = [p \in Players |-> TRUE]
    /\ user_id = [p \in Players |-> 0]
    /\ auth_pending = {}
    /\ ready_pending = [p \in Players |-> 0]
    /\ connected_players = {}
    /\ auth_players = EmptyMap
    /\ queue = <<>>
    /\ match_quality_scores = EmptyMap
    /\ settings \in ConfigChoices
    /\ games = {}
    /\ game = <<>>
    /\ db_rating \in [{1, 2} -> [mu : DecayMus, sigma : DecaySigmas]]
    /\ db_games = <<>>
    /\ timed_out = {}
    /\ disconnect_reason = [p \in Players |-> None]
    /\ escaped = FALSE
    /\ config = settings
    /\ rating_update = NoRatingUpdate

ScoreDecay(amount) ==
    /\ \A u \in DOMAIN db_rating : db_rating[u].sigma + amount <= MaxDecaySigma
    /\ Commit(adjust_scores(Cur, amount))

NextDecay == \E amount \in DecayAmounts : ScoreDecay(amount)

SpecDecay == InitDecay /\ [][NextDecay]_vars

\* the rating update of _end_game beside the score-decay script: the script is
\* another process on the same database, every statement commits on its own,
\* and so the script's UPDATE can fall between any two statements of the
\* rating update.  Users 1 and 2 have finished a game with a result that is
\* rated; pc is the last statement of the rating update that has run.
RaceMus == {20, DEFAULT_MU}
RaceSigmas == {3, 4}
RaceScores == {<<1, 0>>, <<0, 1>>, <<0, 0>>}
RaceAmounts == {1, 2}

InitRace ==
    /\ sess = [p \in Players |-> "new"]
    /\ is_connected = [p \in Players |-> TRUE]
    /\ user_id = [p \in Players |-> 0]
    /\ auth_pending = {}
    /\ ready_pending = [p \in Players |-> 0]
    /\ connected_players = {}
    /\ auth_players = EmptyMap
    /\ queue = <<>>
    /\ match_quality_scores = EmptyMap
    /\ settings \in ConfigChoices
    /\ games = {}
    /\ game = <<>>
    /\ db_rating \in [{1, 2} -> [mu : RaceMus, sigma : RaceSigmas]]
    /\ db_games = <<>>
    /\ timed_out = {}
    /\ disconnect_reason = [p \in Players |-> None]
    /\ escaped = FALSE
    /\ config = settings
    /\ \E sc \in RaceScores :
          rating_update = [NoRatingUpdate EXCEPT !.pc = "start", !.scores = sc,
                                                 !.start = db_rating]

RaceUnchanged ==
    UNCHANGED <<sess, is_connected, user_id, auth_pending, ready_pending,
                connected_players, auth_players, queue, match_quality_scores,
                settings, games, game, db_games, timed_out,
                disconnect_reason, escaped, config>>

\* mu_p1, sigma_p1 = get_matchmaking_parameters(result.user1_id)
GetParametersUser1 ==
    /\ rating_update.pc = "start"
    /\ rating_update' = [rating_update EXCEPT
                             !.pc = "got1",
                             !.p1 = get_matchmaking_parameters(Cur, 1)]
    /\ db_rating' = db_rating
    /\ RaceUnchanged

\* mu_p2, sigma_p2 = get_matchmaking_parameters(result.user2_id)
GetParametersUser2 ==
    /\ rating_update.pc = "got1"
    /\ rating_update' = [rating_update EXCEPT
                             !.pc = "got2",
                             !.p2 = get_matchmaking_parameters(Cur, 2)]
    /\ db_rating' = db_rating
    /\ RaceUnchanged

\* model.rate on the values read
Rated ==
    rate(rating_update.p1, rating_update.p2,
         rating_update.scores[1], rating_update.scores[2])

\* update_matchmaking_parameters(result.user1_id, p1.mu, p1.sigma)
UpdateParametersUser1 ==
    /\ rating_update.pc = "got2"
    /\ rating_update' = [rating_update EXCEPT !.pc = "set1"]
    /\ db_rating' = set_matchmaking_parameters(Cur, 1, Rated[1].mu,
                                                Rated[1].sigma).db_rating
    /\ RaceUnchanged

\* update_matchmaking_parameters(result.user2_id, p2.mu, p2.sigma)
UpdateParametersUser2 ==
    /\ rating_update.pc = "set1"
    /\ rating_update' = [rating_update EXCEPT !.pc = "done"]
    /\ db_rating' = set_matchmaking_parameters(Cur, 2, Rated[2].mu,
                                                Rated[2].sigma).db_rating
    /\ RaceUnchanged

\* the score-decay script runs once, at any point
AdjustScores(amount) ==
    /\ rating_update.pc # "none"
    /\ rating_update.amount = 0
    /\ rating_update' = [rating_update EXCEPT !.amount = amount]
    /\ db_rating' = adjust_scores(Cur, amount).db_rating
    /\ RaceUnchanged

NextRace ==
    \/ GetParametersUser1
    \/ GetParametersUser2
    \/ UpdateParametersUser1
    \/ UpdateParametersUser2
    \/ \E amount \in RaceAmounts : AdjustScores(amount)

SpecRace == InitRace /\ [][NextRace]_vars

\* get_result on its own: one game object of p1 and p2 in any condition the
\* adapter and force_end can leave it in, with either user_id possibly unset
InitResult ==
    /\ sess = [p \in Players |-> IF p \in {"p1", "p2"} THEN "open" ELSE "new"]
    /\ is_connected = [p \in Players |-> TRUE]
    /\ \E u1, u2 \in {0, 1, 2} :
          user_id = [p \in Players |-> IF p = "p1" THEN u1
                                       ELSE IF p = "p2" THEN u2 ELSE 0]
    /\ auth_pending = {}
    /\ ready_pending = [p \in Players |-> 0]
    /\ connected_players = {"p1", "p2"}
    /\ auth_players = EmptyMap
    /\ queue = <<>>
    /\ match_quality_scores = EmptyMap
    /\ settings \in ConfigChoices
    /\ games = {1}
    /\ \E s1, s2 \in 0..1 : \E fin \in BOOLEAN : \E d \in {None, "p1", "p2"} :
          game = <<[NewGame("p1", "p2", 0) EXCEPT
                      !.scores = <<s1, s2>>,
                      !.finished = fin,
                      !.disconnected_player_id = d]>>
    /\ db_rating = InitRating
    /\ db_games = <<>>
    /\ timed_out = {}
    /\ disconnect_reason = [p \in Players |-> None]
    /\ escaped = FALSE
    /\ config = settings
    /\ rating_update = NoRatingUpdate

\* the result of the game is taken and kept as the only row
GetResult ==
    /\ db_games = <<>>
    /\ db_games' = <<get_result(Cur, 1)>>
    /\ UNCHANGED <<sess, is_connected, user_id, auth_pending, ready_pending,
                   connected_players, auth_players, queue, match_quality_scores,
                   settings, games, game, db_rating, timed_out,
                   disconnect_reason, escaped, config, rating_update>>

SpecResult == InitResult /\ [][GetResult]_vars

\* ------------------------------------------------------------- properties
Live(g) == game[g] # Forgotten
RowsOf(g) == {k \in 1..Len(db_games) : db_games[k].game_id = g}
QueuedPlayers == {queue[k].player_id : k \in 1..Len(queue)}

\* C1: the matchmaking queue never holds two entries for one player_id
C1_QueueUniqueness ==
    \A i, j \in 1..Len(queue) :
        i # j => queue[i].player_id # queue[j].player_id

\* players wait in the queue after a game has ended and a session was lost
C1_Witness ==
    /\ Len(queue) >= 2
    /\ Len(db_games) >= 1
    /\ \E p \in Players : sess[p] = "closed"

\* C2: the two players of a started game belong to different users, and
\* they are not both bots
C2_LegalGames ==
    \A g \in games :
        LET a == game[g].players[1]
            b == game[g].players[2]
        IN /\ user_id[a] # 0 /\ user_id[b] # 0
           /\ user_id[a] # user_id[b]
           /\ ~(UserRole[user_id[a]] = "bot" /\ UserRole[user_id[b]] = "bot")

\* a game runs while an entry that could not legally be paired is queued
C2_Witness ==
    /\ games # {}
    /\ Len(queue) = 1

\* C3: the quality the pass computed for the pair of a started game is
\* strictly greater than the threshold
C3_ThresholdSafety ==
    \A g \in games : game[g].quality > settings.match_quality_threshold

\* a pair whose quality was exactly the threshold is matched once the
\* waiting bonus has lifted it above
C3_Witness ==
    \E g \in games :
        /\ game[g].quality = settings.match_quality_threshold
                               + settings.percental_time_bonus
        /\ {user_id[game[g].players[1]], user_id[game[g].players[2]]} = {1, 3}

\* C4: the number of active games never exceeds max_parallel_games
C4_ParallelGameCap == Cardinality(games) <= settings.max_parallel_games

\* the cap is reached, a pass has run since (it computed no quality), and a
\* legal pair of sufficient quality is still waiting in the queue
C4_Witness ==
    /\ Cardinality(games) = settings.max_parallel_games
    /\ match_quality_scores = EmptyMap
    /\ \E i, j \in 1..Len(queue) :
          /\ i < j
          /\ is_legal_match(queue[i], queue[j])
          /\ above_threshold(fresh_quality(Cur, queue[i], queue[j]),
                             settings.match_quality_threshold)

\* the row stored for game g by this step, if any
NewRowsOf(g) == {k \in 1..Len(db_games') : db_games'[k].game_id = g} \ RowsOf(g)

\* C5: when a game with a disconnected participant leaves the active set, the
\* row stored for it is DISCONNECTED and names a disconnected participant,
\* and no rating changes in that step
C5_DisconnectImpliesDisconnected ==
    [][\A g \in games \ games' :
          (\E p \in PlayersOf(game[g]) : ~is_connected'[p]) =>
              /\ \E k \in NewRowsOf(g) :
                    /\ db_games'[k].end_state = "DISCONNECTED"
                    /\ db_games'[k].disconnected_id \in
                          {user_id[p] : p \in {q \in PlayersOf(game[g]) :
                                                  ~is_connected'[q]}}
              /\ db_rating' = db_rating]_vars

\* C6: a game that has ended has exactly one row in the games table, and a
\* game that is still active has none
C6_ResultCompleteness ==
    \A g \in 1..Len(game) :
        Cardinality(RowsOf(g)) = IF g \in games THEN 0 ELSE 1

\* two games have ended, one of them forced and one naturally
C6_Witness ==
    /\ Len(db_games) = 2
    /\ \E k \in 1..2 : db_games[k].end_state = "DISCONNECTED"
    /\ \E k \in 1..2 : db_games[k].end_state = "WIN"

\* C7: update runs once per tick, after both replies of that tick: it has
\* run for the current tick only if both actions are in, it has run if both
\* are in and no player is recorded as disconnected, and it has never run
\* with fewer than both actions
C7_JoinBarrier ==
    \A g \in 1..Len(game) :
        Live(g) =>
            /\ game[g].ticks \in {game[g].round - 1, game[g].round}
            /\ game[g].ticks = game[g].round
                  => DOMAIN game[g].actions = PlayersOf(game[g])
            /\ (DOMAIN game[g].actions = PlayersOf(game[g])
                  /\ game[g].disconnected_player_id = None)
                  => game[g].ticks = game[g].round
            /\ ~game[g].upd_partial

\* a game is in its second tick, with one reply in and one update done
C7_Witness ==
    \E g \in games :
        /\ game[g].round = 2
        /\ game[g].ticks = 1
        /\ Cardinality(DOMAIN game[g].actions) = 1

\* C8: when a game with a participant that was disconnected for an invalid
\* action leaves the active set, the row stored for it is DISCONNECTED (not
\* WIN, not DRAW) and the rating of the other participant is unchanged
C8_InvalidActionHandling ==
    [][\A g \in games \ games' : \A p \in PlayersOf(game[g]) :
          ("Invalid action" \in {disconnect_reason[p], disconnect_reason'[p]}) =>
              /\ \E k \in NewRowsOf(g) : db_games'[k].end_state = "DISCONNECTED"
              /\ \A q \in PlayersOf(game[g]) \ {p} :
                    db_rating'[user_id[q]] = db_rating[user_id[q]]]_vars

\* C9: a session on_timeout ran for is disconnected, and a session whose
\* on_disconnect has run is in no queue entry, in neither map of the player
\* manager and in no active game
C9_DisconnectCascade ==
    /\ \A p \in timed_out : ~is_connected[p]
    /\ \A p \in Players :
          sess[p] = "closed" =>
              /\ p \notin QueuedPlayers
              /\ p \notin connected_players
              /\ p \notin DOMAIN auth_players
              /\ \A g \in games : p \notin PlayersOf(game[g])

\* C10: no exception leaves a server callback, and no game stays in the
\* active set once it is over or one of its players is recorded as
\* disconnected
C10_PersistenceFailureNonFatal ==
    /\ ~escaped
    /\ \A g \in games :
          /\ ~game[g].finished
          /\ game[g].disconnected_player_id = None

\* C11: once a game has been force-ended, no later step sends another
\* notify_end or is_ready for it, runs its rating update or stores another
\* row for it
C11_ForceEndIdempotent ==
    [][\A g \in 1..Len(game) :
          (/\ game[g] # Forgotten
           /\ g \notin games
           /\ game[g].disconnected_player_id # None
           /\ game'[g] # Forgotten) =>
              /\ game'[g].n_end = game[g].n_end
              /\ game'[g].n_ready = game[g].n_ready
              /\ game'[g].rated = game[g].rated
              /\ {k \in 1..Len(db_games') : db_games'[k].game_id = g} = RowsOf(g)]_vars

\* C12: a step taken when a game has already left the active set (its
\* end_game has run) stores no further row for it, raises nothing and does
\* not bring it back into the active set
C12_EndGameIdempotent ==
    [][\A g \in 1..Len(game) :
          g \notin games =>
              /\ g \notin games'
              /\ {k \in 1..Len(db_games') : db_games'[k].game_id = g} = RowsOf(g)
              /\ ~escaped']_vars

\* the finish callbacks of an ended game have run a second time, and the
\* game still has its one row
C12_Witness ==
    \E g \in 1..Len(game) :
        /\ game[g] # Forgotten
        /\ g \notin games
        /\ \E q \in PlayersOf(game[g]) : game[g].n_end[q] = 2
        /\ Cardinality(RowsOf(g)) = 1

\* the queue entry of a queued player
InQueue(p) == \E k \in 1..Len(queue) : queue[k].player_id = p
EntryOf(p) == queue[CHOOSE k \in 1..Len(queue) : queue[k].player_id = p]

\* both players are queued, the pair is legal, and its quality as computed
\* now is not above the threshold
StuckPair(a, b) ==
    /\ a # b /\ InQueue(a) /\ InQueue(b)
    /\ is_legal_match(EntryOf(a), EntryOf(b))
    /\ ~above_threshold(fresh_quality(Cur, EntryOf(a), EntryOf(b)),
                        settings.match_quality_threshold)

CrossedPair(a, b) ==
    /\ a # b /\ InQueue(a) /\ InQueue(b)
    /\ is_legal_match(EntryOf(a), EntryOf(b))
    /\ above_threshold(fresh_quality(Cur, EntryOf(a), EntryOf(b)),
                       settings.match_quality_threshold)

SessionPairs == {<<"p1", "p2">>, <<"p1", "p3">>, <<"p2", "p3">>}

\* C13: a legal pair of queued entries whose quality is not above the
\* threshold leads to the pair's quality being above it, or to one of the
\* two entries having left the queue
C13_BoundedStarvation ==
    \A pair \in SessionPairs : LET a == pair[1] b == pair[2] IN
        StuckPair(a, b) ~> (CrossedPair(a, b) \/ ~InQueue(a) \/ ~InQueue(b))

\* a queued legal pair is above the threshold only thanks to its waiting
\* bonus
C13_Witness ==
    \E a, b \in Sessions :
        /\ CrossedPair(a, b)
        /\ ~above_threshold(predict_draw(EntryOf(a).user, EntryOf(b).user),
                            settings.match_quality_threshold)

\* the users whose token a session may present
UsersOfferedBy(p) == {get_user_by_token(t) : t \in TokenChoices[p]} \ {0}

\* the reply to authenticate of session p is processed in this step
AuthProcessed(p) ==
    /\ p \in auth_pending /\ p \notin auth_pending'
    /\ sess[p] = "open" /\ sess'[p] # "closed"

\* C14: a processed authentication either binds the session to the user of
\* a token it may have presented (always, if every such token is a user's),
\* or adds nothing to the authenticated map and disconnects the session with
\* "Authentication failed" (only if it may have presented an unknown token);
\* and only sessions bound to a user are authenticated, queued or in a game
C14_Authentication ==
    [][/\ \A p \in Players :
             AuthProcessed(p) =>
                 \/ /\ p \in DOMAIN auth_players'
                    /\ auth_players'[p] \in UsersOfferedBy(p)
                    /\ user_id'[p] = auth_players'[p]
                    /\ is_connected'[p]
                 \/ /\ BadToken \in TokenChoices[p]
                    /\ p \notin DOMAIN auth_players'
                    /\ user_id'[p] = 0
                    /\ ~is_connected'[p]
                    /\ disconnect_reason'[p] = "Authentication failed"
                    /\ ready_pending'[p] = 0
       /\ \A p \in Players :
             (\/ p \in DOMAIN auth_players'
              \/ \E k \in 1..Len(queue') : queue'[k].player_id = p
              \/ \E g \in games' : p \in PlayersOf(game'[g])
              \/ ready_pending'[p] > 0)
                 => /\ user_id'[p] \in Users
                    /\ disconnect_reason'[p] # "Authentication failed"]_vars

\* a session failed to authenticate while two authenticated sessions play
C14_Witness ==
    /\ \E p \in Players : disconnect_reason[p] = "Authentication failed"
    /\ \E g \in games : \A q \in PlayersOf(game[g]) : q \in DOMAIN auth_players

\* C15: in every active game both players are connected, or the game has
\* its disconnected_player_id set
C15_GameInstanceInvariant ==
    \A g \in games :
        \/ \A p \in PlayersOf(game[g]) : is_connected[p]
        \/ game[g].disconnected_player_id # None

\* rows stored by the current step
NewRows == {k \in 1..Len(db_games') : k > Len(db_games)}
RatedRows == {k \in NewRows : db_games'[k].end_state \in {"WIN", "DRAW"}}

\* C17: a step that stores a WIN or DRAW row stores one such row and rewrites
\* the ratings of its two users to rate() of their stored ratings before the
\* step and the row's scores, leaving every other user's rating alone; a step
\* that stores no such row changes no rating
C17_RatingUpdate ==
    [][/\ RatedRows = {} => db_rating' = db_rating
       /\ \A k \in RatedRows :
             LET r == db_games'[k]
                 new == rate(db_rating[r.user1_id], db_rating[r.user2_id],
                             r.score_user_1, r.score_user_2)
             IN /\ RatedRows = {k}
                /\ r.user1_id # r.user2_id
                /\ db_rating'[r.user1_id] = new[1]
                /\ db_rating'[r.user2_id] = new[2]
                /\ \A u \in Users \ {r.user1_id, r.user2_id} :
                      db_rating'[u] = db_rating[u]]_vars

\* two games of the same users have been rated, the second from the ratings
\* the first one left in the store
C17_Witness ==
    /\ Len(db_games) = 2
    /\ \A k \in 1..2 : db_games[k].end_state \in {"WIN", "DRAW"}
    /\ \E u \in Users : db_rating[u].sigma = InitRating[u].sigma - 2

\* the players of the games that leave the active set in the current step
EndedPlayers == UNION {PlayersOf(game[g]) : g \in games \ games'}
Registered(p) == p \in DOMAIN auth_players

\* C18: in the step that ends a game, each of its players that is still
\* registered gets one more is_ready request and a removed one gets none;
\* requests are otherwise sent only on authentication; the reply to a request
\* appends the player to the end of the queue iff it is true; and a player
\* that is not registered is never in the queue
C18_Requeue ==
    /\ [](\A p \in Players : InQueue(p) => Registered(p))
    /\ [][\A p \in Players :
            /\ p \in EndedPlayers =>
                  IF Registered(p)'
                  THEN ready_pending'[p] = ready_pending[p] + 1
                  ELSE ready_pending'[p] <= ready_pending[p] /\ ~InQueue(p)'
            /\ ready_pending'[p] > ready_pending[p] =>
                  p \in EndedPlayers \/ (~Registered(p) /\ Registered(p)')
            /\ \A ready \in BOOLEAN :
                  ReadyReply(p, ready) =>
                      IF ready
                      THEN /\ Len(queue') = Len(queue) + 1
                           /\ SubSeq(queue', 1, Len(queue)) = queue
                           /\ queue'[Len(queue')].player_id = p
                      ELSE queue' = queue]_vars

\* a game ended by a disconnect: the session that left is closed and not
\* queued, the other player of the game answered and waits in the queue
C18_Witness ==
    /\ Len(db_games) = 1
    /\ db_games[1].end_state = "DISCONNECTED"
    /\ games = {}
    /\ \E p, q \in Sessions :
          /\ sess[q] = "closed" /\ user_id[q] = db_games[1].disconnected_id
          /\ ~InQueue(q)
          /\ p # q /\ InQueue(p) /\ ready_pending[p] = 0
          /\ {user_id[p], user_id[q]} = {db_games[1].user1_id, db_games[1].user2_id}
          /\ \A o \in Sessions \ {p, q} : sess[o] = "new"

\* the quality the last pass worked with for a pair of entries
PassQuality(a, b) == match_quality_scores[cache_key(a, b)]

\* C19: a pass that is stopped neither by the min-players gate nor by the
\* limit for parallel games leaves no two entries that are a legal match and
\* whose quality in the pass is above the threshold; and a pass over a queue
\* of exactly two entries that are a legal match of quality above the
\* threshold starts one game with these two and empties the queue
C19_CompletePass ==
    [][OnUpdate /\ Len(queue) >= _min_players_waiting(Cur) =>
         /\ Cardinality(games') < settings.max_parallel_games =>
               \A i, j \in 1..Len(queue') :
                   i < j /\ is_legal_match(queue'[i], queue'[j]) =>
                       /\ cache_key(queue'[i], queue'[j]) \in DOMAIN match_quality_scores'
                       /\ match_quality_scores'[cache_key(queue'[i], queue'[j])]
                             <= settings.match_quality_threshold
         /\ ( /\ Cardinality(games) < settings.max_parallel_games
              /\ Len(queue) = 2
              /\ is_legal_match(queue[1], queue[2])
              /\ fresh_quality(Cur, queue[1], queue[2])
                    > settings.match_quality_threshold ) =>
               /\ queue' = <<>>
               /\ Len(game') = Len(game) + 1
               /\ games' = games \cup {Len(game')}
               /\ game'[Len(game')].players
                     = <<queue[1].player_id, queue[2].player_id>>]_vars

\* a pass has started a game, a slot is still free, and two entries that are
\* a legal match stay in the queue because their quality in the pass was not
\* above the threshold
C19_Witness ==
    /\ Cardinality(games) = 1
    /\ Cardinality(games) < settings.max_parallel_games
    /\ game[Len(game)].round = 1 /\ game[Len(game)].pending = PlayersOf(game[Len(game)])
    /\ \E i, j \in 1..Len(queue) :
          /\ i < j /\ is_legal_match(queue[i], queue[j])
          /\ cache_key(queue[i], queue[j]) \in DOMAIN match_quality_scores
          /\ PassQuality(queue[i], queue[j]) <= settings.match_quality_threshold

\* two entries of different users that are not both bots
LegalPair(a, b) ==
    /\ a.user.user_id # b.user.user_id
    /\ ~(a.user.role = "bot" /\ b.user.role = "bot")

\* no two queue entries are a legal pair of quality above the threshold
NoMatchPossible ==
    \A i, j \in 1..Len(queue) :
        i < j /\ LegalPair(queue[i], queue[j]) =>
            fresh_quality(Cur, queue[i], queue[j]) <= settings.match_quality_threshold

\* C20: an update() over a queue in which no legal pair has a quality above
\* the threshold starts no game and leaves the queue as it was: the same
\* entries in the same order with the same in_queue_since
C20_NoMatchFrame ==
    [][OnUpdate /\ NoMatchPossible =>
          /\ queue' = queue
          /\ games' = games
          /\ game' = game
          /\ db_games' = db_games
          /\ db_rating' = db_rating]_vars

\* after a pass: no game runs, the queue holds a legal pair the pass rated
\* not above the threshold together with two bots or two sessions of one
\* user, and no two entries could be matched
C20_Witness ==
    /\ games = {}
    /\ Len(queue) = 3
    /\ NoMatchPossible
    /\ \E i, j \in 1..Len(queue) :
          /\ i < j /\ LegalPair(queue[i], queue[j])
          /\ cache_key(queue[i], queue[j]) \in DOMAIN match_quality_scores
    /\ \E i, j \in 1..Len(queue) :
          i < j /\ ~LegalPair(queue[i], queue[j])

\* the queue is shorter than floor(authenticated players x percentage / 100)
GateClosed ==
    100 * (Len(queue) + 1)
        <= Cardinality(DOMAIN auth_players) * settings.percentage_min_players_waiting

\* C21: an update() run while the queue is shorter than the floor of the
\* number of authenticated players times percentage_min_players_waiting
\* starts no game and leaves the queue unchanged
C21_MinPlayersGate ==
    [][OnUpdate /\ GateClosed =>
          /\ queue' = queue
          /\ games' = games
          /\ game' = game]_vars

\* a pass has run since the running game was started; two entries that could
\* be matched wait behind the closed gate, the other authenticated players
\* being in a game or not ready
C21_Witness ==
    /\ GateClosed
    /\ Len(queue) = 2
    /\ LegalPair(queue[1], queue[2])
    /\ fresh_quality(Cur, queue[1], queue[2]) > settings.match_quality_threshold
    /\ Cardinality(games) = 1
    /\ match_quality_scores = EmptyMap
    /\ Cardinality(DOMAIN auth_players) = 4

\* C22: every matching pass works with the matchmaking settings of the
\* current configuration: its queue and games are those of a pass computed
\* with the values loaded last
C22_HotReload ==
    [][OnUpdate =>
          \E S \in update([Cur EXCEPT !.settings = config]) :
              /\ queue' = S.queue
              /\ games' = S.games]_vars

StoredIds == {db_games[k].game_id : k \in 1..Len(db_games)}

\* C23: adding a result whose game_id is already stored raises and leaves
\* the games table as it is; adding one with a new game_id appends it; so
\* the table never holds two rows of one game_id
C23_UniqueGameId ==
    /\ [](Len(db_games) = Cardinality(StoredIds))
    /\ [][\A gid \in 1..MaxStoredGames : \A end_state \in {"WIN", "DISCONNECTED"} :
            StoreAddGame(gid, end_state) =>
                IF gid \in StoredIds
                THEN db_games' = db_games /\ escaped'
                ELSE /\ Len(db_games') = Len(db_games) + 1
                     /\ SubSeq(db_games', 1, Len(db_games)) = db_games
                     /\ db_games'[Len(db_games')].game_id = gid
                     /\ escaped' = escaped]_vars

\* a second add under a stored game_id was refused while every id is stored
C23_Witness ==
    /\ escaped
    /\ Len(db_games) = MaxStoredGames

DefaultRating == [mu |-> DEFAULT_MU, sigma |-> DEFAULT_SIGMA]

\* C24: a reset leaves every user with the default rating and the games
\* table empty, and the set of users as it was
C24_Reset ==
    [][StoreReset =>
          /\ DOMAIN db_rating' = DOMAIN db_rating
          /\ \A u \in DOMAIN db_rating' : db_rating'[u] = DefaultRating
          /\ db_games' = <<>>]_vars

\* after a reset: the table that had rows is empty (an add was refused
\* before, so a game was stored) and all three users have the defaults
C24_Witness ==
    /\ escaped
    /\ db_games = <<>>
    /\ DOMAIN db_rating = Users
    /\ \A u \in Users : db_rating[u] = DefaultRating

\* C25: a rating write makes the user's stored rating the written one and
\* leaves every other user's rating alone; a new user starts with the
\* defaults, and a rating changes only by a write to that user or by a reset
C25_RatingWriteFrame ==
    [][/\ \A u \in Users : \A mu \in StoreMus : \A sigma \in StoreSigmas :
            StoreSetRating(u, mu, sigma) =>
                /\ DOMAIN db_rating' = DOMAIN db_rating
                /\ db_rating'[u] = [mu |-> mu, sigma |-> sigma]
                /\ \A v \in DOMAIN db_rating \ {u} : db_rating'[v] = db_rating[v]
       /\ \A u \in DOMAIN db_rating' \ DOMAIN db_rating :
            db_rating'[u] = DefaultRating
       /\ \A u \in DOMAIN db_rating :
            /\ u \in DOMAIN db_rating'
            /\ db_rating'[u] # db_rating[u] =>
                  \/ \E mu \in StoreMus : \E sigma \in StoreSigmas :
                        StoreSetRating(u, mu, sigma)
                  \/ StoreReset]_vars

\* one user's rating has been written, the two others still read the defaults
C25_Witness ==
    /\ DOMAIN db_rating = Users
    /\ db_rating[2] = [mu |-> 23, sigma |-> 3]
    /\ db_rating[1] = DefaultRating
    /\ db_rating[3] = DefaultRating
    /\ db_games = <<>> /\ ~escaped

\* how two users compare under the ranking key
RankOrder(a, b) ==
    IF score(a) < score(b) THEN "below"
    ELSE IF score(a) > score(b) THEN "above" ELSE "equal"

\* C26: adding the same amount to every user's sigma leaves the order of
\* any two users under the ranking key mu - 3 * sigma as it was
C26_DecayPreservesRanking ==
    [][\A u, v \in DOMAIN db_rating :
          RankOrder(db_rating[u], db_rating[v])
              = RankOrder(db_rating'[u], db_rating'[v])]_vars

\* max(0, (m - 1) x percental_time_bonus) for m combined minutes of waiting
ExpectedBonus(m) ==
    IF m <= 1 THEN 0 ELSE (m - 1) * settings.percental_time_bonus

CombinedWait(a, b) == (now - a.in_queue_since) + (now - b.in_queue_since)

QualityNow(a, b) ==
    predict_draw(a.user, b.user) + ExpectedBonus(CombinedWait(a, b))

\* C28: no pass works with a quality of an earlier pass: every value in the
\* cache after update() is the quality, computed in this pass, of a legal
\* pair of its queue, and a queue of two entries that are a legal pair is
\* matched iff that quality is above the threshold (a game slot being free),
\* whatever the cache held before
C28_CacheLifetime ==
    [][OnUpdate =>
         /\ \A K \in DOMAIN match_quality_scores' :
               \E i, j \in 1..Len(queue) :
                   /\ i < j /\ LegalPair(queue[i], queue[j])
                   /\ K = {queue[i].user.username, queue[j].user.username}
                   /\ match_quality_scores'[K] = QualityNow(queue[i], queue[j])
         /\ ( /\ Len(queue) = 2
              /\ LegalPair(queue[1], queue[2])
              /\ Cardinality(games) < settings.max_parallel_games ) =>
               IF QualityNow(queue[1], queue[2]) > settings.match_quality_threshold
               THEN queue' = <<>> /\ Cardinality(games') = Cardinality(games) + 1
               ELSE queue' = queue /\ games' = games]_vars

\* the second of two running games was started at a quality that includes a
\* waiting bonus, and the cache holds that pass's value only: the quality
\* recorded when the first game was started is gone
C28_Witness ==
    /\ games = {1, 2}
    /\ game[1].quality = 45
    /\ game[2].quality = 40
    /\ DOMAIN match_quality_scores = {{1, 3}}
    /\ match_quality_scores[{1, 3}] = 40

\* IGame._end is entered for game g in the current step: the adapter has
\* reported the game over, or force_end has recorded a disconnected player
EndEntered(g) ==
    \/ game'[g].finished /\ ~game[g].finished
    \/ game'[g].disconnected_player_id # None
          /\ game[g].disconnected_player_id = None

\* C29: in the step in which a game ends, each of its players that is still
\* connected is sent one notify_end and the player recorded as disconnected
\* none; no other step sends a notify_end for the game, so nobody gets two
\* (checked on the game objects that are still referenced after the step)
C29_EndNotification ==
    [][\A g \in 1..Len(game) :
          (game[g] # Forgotten /\ game'[g] # Forgotten) =>
              \A p \in PlayersOf(game[g]) :
                  /\ game'[g].n_end[p] <= 1
                  /\ ~EndEntered(g) => game'[g].n_end[p] = game[g].n_end[p]
                  /\ EndEntered(g) =>
                        IF p = game'[g].disconnected_player_id
                        THEN game'[g].n_end[p] = game[g].n_end[p]
                        ELSE is_connected'[p] =>
                               game'[g].n_end[p] = game[g].n_end[p] + 1]_vars

\* the step is the reply of player p to a get_action request of game g
IsActionReply(g, p) ==
    \E valid \in BOOLEAN : \E outcome \in Outcomes : \E dbok \in BOOLEAN :
        ActionReply(g, p, valid, outcome, dbok)

\* C30: a get_action reply that arrives for a game that is no longer active
\* changes nothing: no adapter update, no new round, no second end of the
\* game, no row, no rating, no request, and no disconnect of the replying
\* player
C30_StaleReplyHarmless ==
    [][\A g \in 1..Len(game) : \A p \in Players :
          (g \notin games /\ IsActionReply(g, p)) =>
              /\ sess' = sess
              /\ is_connected' = is_connected
              /\ disconnect_reason' = disconnect_reason
              /\ games' = games
              /\ db_games' = db_games
              /\ db_rating' = db_rating
              /\ queue' = queue
              /\ ready_pending' = ready_pending
              /\ auth_players' = auth_players
              /\ game'[g] # Forgotten =>
                    /\ game'[g].ticks = game[g].ticks
                    /\ game'[g].round = game[g].round
                    /\ game'[g].scores = game[g].scores
                    /\ game'[g].n_end = game[g].n_end
                    /\ game'[g].n_ready = game[g].n_ready]_vars

\* C31: the adapter's update has never been invoked, for any game that is
\* still observable, with an action that failed validate_action
C31_NoUpdateWithInvalidAction ==
    \A g \in 1..Len(game) : Live(g) => ~game[g].upd_bad

\* the step is a reply of session p that arrives after its removal
IsLateReply(p) ==
    \/ \E token \in TokenChoices[p] : LateAuthReply(p, token)
    \/ \E ready \in BOOLEAN : LateReadyReply(p, ready)

\* C32: every queued player_id is authenticated and every authenticated
\* player_id is connected; and a reply of a removed session leaves the queue
\* and both maps as they were, without that session
C32_RegistryContainment ==
    /\ [](/\ QueuedPlayers \subseteq DOMAIN auth_players
          /\ DOMAIN auth_players \subseteq connected_players
          /\ \A p \in Players :
                sess[p] = "closed" =>
                    /\ p \notin connected_players
                    /\ p \notin DOMAIN auth_players
                    /\ p \notin QueuedPlayers)
    /\ [][\A p \in RemoteErrorSessions :
             IsLateReply(p) =>
                 /\ queue' = queue
                 /\ auth_players' = auth_players
                 /\ connected_players' = connected_players
                 /\ ready_pending'[p] <= ready_pending[p]]_vars

\* the authenticate reply of a removed session has been processed (and
\* refused) while another session, whose is_ready reply may still come, was
\* removed after it had authenticated, and a third is queued
C32_Witness ==
    /\ \E p \in Players : /\ sess[p] = "closed"
                          /\ disconnect_reason[p] = "Authentication failed"
    /\ \E p \in Players : /\ sess[p] = "closed"
                          /\ user_id[p] # 0
                          /\ ready_pending[p] = 0
    /\ Len(queue) >= 1

C34_GamesEnd ==
    \A g \in games :
        \/ game[g].pending # {}
        \/ \E p \in PlayersOf(game[g]) : sess[p] # "open"

\* the states the loop can end in when its iterations are run one by one
\* from index i
RECURSIVE FinalStates(_, _)
FinalStates(S, i) ==
    IF ~LoopContinues(S, i) THEN {S}
    ELSE UNION {FinalStates(r.S, r.i) : r \in SearchStep(S, i)}

\* the largest number of iterations the loop can take from index i
RECURSIVE Iterations(_, _)
Iterations(S, i) ==
    IF ~LoopContinues(S, i) THEN 0
    ELSE LET rest == {Iterations(r.S, r.i) : r \in SearchStep(S, i)}
         IN 1 + CHOOSE n \in rest : \A m \in rest : m <= n

\* C35: at every index the loop can be at, an iteration either advances the
\* index and leaves the queue alone or keeps the index and removes at least
\* one entry; the loop run from index 0 takes at most as many iterations as
\* twice the length of the queue, and ends where update() ends
C35_PassTerminates ==
    /\ \A i \in 0..Len(queue) :
          LoopContinues(Cur, i) =>
              \A r \in SearchStep(Cur, i) :
                  \/ r.i = i + 1 /\ r.S.queue = queue
                  \/ r.i = i /\ Len(r.S.queue) < Len(queue)
    /\ Iterations(Cur, 0) <= 2 * Len(queue)
    /\ FinalStates(Cur, 0) = SearchLoop(Cur, 0)

\* the loop is about to pair an authenticated entry with an entry whose
\* session the player manager does not know, with a third entry waiting
C35_Witness ==
    /\ Len(queue) >= 3
    /\ LoopContinues(Cur, 0)
    /\ queue[1].player_id \in DOMAIN auth_players
    /\ \E r \in SearchStep(Cur, 0) :
          /\ r.i = 0
          /\ r.S.games = games
          /\ Len(r.S.queue) = Len(queue) - 1

\* the step is a second run of on_disconnect for session p
IsSecondDisconnect(p) == \E dbok \in BOOLEAN : OnDisconnectAgain(p, dbok)

\* C36: a second run of on_disconnect for a session changes neither the
\* queue, nor the maps of the player manager, nor the active games, stores no
\* row, changes no rating, sends no request or notification and raises
\* nothing
C36_DisconnectIdempotent ==
    [][\A p \in Sessions :
          IsSecondDisconnect(p) =>
              /\ queue' = queue
              /\ connected_players' = connected_players
              /\ auth_players' = auth_players
              /\ games' = games
              /\ db_games' = db_games
              /\ db_rating' = db_rating
              /\ ready_pending' = ready_pending
              /\ auth_pending' = auth_pending
              /\ escaped' = escaped
              /\ \A g \in 1..Len(game) :
                    game'[g] # Forgotten =>
                        /\ game'[g].n_end = game[g].n_end
                        /\ game'[g].n_ready = game[g].n_ready
                        /\ game'[g].pending = game[g].pending]_vars

\* an authenticated session that waits for nothing: no is_ready request is
\* in flight for it, it is not in the queue and it plays no game
Parked(p) ==
    /\ p \in DOMAIN auth_players
    /\ p \in connected_players
    /\ ready_pending[p] = 0
    /\ p \notin QueuedPlayers
    /\ \A g \in games : p \notin PlayersOf(game[g])

\* C37: the reply "not ready" parks the session, and a parked session stays
\* parked, connected and authenticated until its connection ends: it gets no
\* further is_ready request, never enters the queue and is never put in a
\* game
C37_NotReadyParked ==
    [][\A p \in Players :
          /\ ReadyReply(p, FALSE) => Parked(p)' /\ is_connected'[p]
          /\ Parked(p) =>
                \/ Parked(p)' /\ (sess'[p] = "open" => is_connected'[p])
                \/ sess'[p] = "closed"]_vars

\* a session that answered "not ready" is parked while two others wait in
\* the queue behind the gate it helps to keep closed, after a game was played
C37_Witness ==
    /\ Parked("p3")
    /\ GateClosed
    /\ Len(queue) = 2
    /\ Len(db_games) >= 1
    /\ 100 * (Len(queue) + 1)
          > (Cardinality(DOMAIN auth_players) - 1)
               * settings.percentage_min_players_waiting

\* the queue entry of player p before the step
EntryBefore(p) == queue[CHOOSE k \in 1..Len(queue) : queue[k].player_id = p]

\* C38: every pair a matching pass accepts is accepted with the quality of
\* its own two entries (the draw probability of their rating snapshots plus
\* the bonus for their own combined wait), and that quality is above the
\* threshold
C38_PerPairQuality ==
    [][OnUpdate =>
          \A g \in games' \ games :
              LET a == EntryBefore(game'[g].players[1])
                  b == EntryBefore(game'[g].players[2])
              IN /\ game'[g].quality = QualityNow(a, b)
                 /\ QualityNow(a, b) > settings.match_quality_threshold]_vars

\* the states in which _end can be entered for the active game g from the
\* current state: after the update that finishes it, or in force_end when
\* on_disconnect runs for one of its players
EndEntries(g) ==
    {[Cur EXCEPT !.game[g] =
          _update([game[g] EXCEPT !.actions = [p \in PlayersOf(game[g]) |-> TRUE],
                                  !.pending = {}], o)]
       : o \in Outcomes \ {"cont"}}
    \cup
    {[pm_remove(mm_remove(ConnectionLost(Cur, p), p), p)
          EXCEPT !.game[g].disconnected_player_id = p]
       : p \in {q \in PlayersOf(game[g]) : sess[q] \in {"open", "closing"}}}

\* the place of a step in the order of the end of a game
Rank(e) ==
    CASE e.ev = "persist" -> 1
      [] e.ev = "remove" -> 2
      [] e.ev = "rate" -> 3
      [] e.ev = "is_ready" -> 4
      [] e.ev = "notify_end" -> 5

SerialSigmas(u) ==
    LET r == rating_update.start
        a == rating_update.amount
        sc == rating_update.scores
        decayed == [v \in DOMAIN r |-> [r[v] EXCEPT !.sigma = fl(@ + a)]]
    IN {fl(rate(r[1], r[2], sc[1], sc[2])[u].sigma + a),
        rate(decayed[1], decayed[2], sc[1], sc[2])[u].sigma}

\* C40: when the rating update and the decay script have both run, the
\* stored sigma of each of the two users is what the two give one after the
\* other, so that neither the decay nor the rating update is lost
C40_NoLostSigmaUpdate ==
    (rating_update.pc = "done" /\ rating_update.amount # 0) =>
        \A u \in {1, 2} : db_rating[u].sigma \in SerialSigmas(u)

\* C16: the result taken from a game is null iff a user_id is missing;
\* otherwise it is DISCONNECTED iff disconnected_player_id is set, else WIN
\* iff a player won, else DRAW; winner_id is set only for WIN and is the
\* winner's user, disconnected_id only for DISCONNECTED and is the user of
\* the disconnected player
C16_GetResultMapping ==
    db_games # <<>> =>
        LET r == db_games[1]
            G == game[1]
            u1 == user_id[G.players[1]]
            u2 == user_id[G.players[2]]
            won1 == G.finished /\ G.scores[1] > G.scores[2]
            won2 == G.finished /\ G.scores[2] > G.scores[1]
            d == G.disconnected_player_id
        IN IF u1 = 0 \/ u2 = 0 THEN r = NoResult
           ELSE /\ r # NoResult
                /\ r.user1_id = u1 /\ r.user2_id = u2
                /\ r.score_user_1 = G.scores[1] /\ r.score_user_2 = G.scores[2]
                /\ r.end_state = (IF d # None THEN "DISCONNECTED"
                                  ELSE IF won1 \/ won2 THEN "WIN" ELSE "DRAW")
                /\ r.winner_id = (IF d = None /\ won1 THEN u1
                                  ELSE IF d = None /\ won2 THEN u2 ELSE 0)
                /\ r.disconnected_id = (IF d = None THEN 0 ELSE user_id[d])

\* the result of a game that a player had won and that was then force-ended
C16_Witness ==
    /\ db_games # <<>>
    /\ db_games[1] # NoResult
    /\ db_games[1].end_state = "DISCONNECTED"
    /\ game[1].finished /\ game[1].scores[1] > game[1].scores[2]

====
